---------------------------- MODULE Spec2Model ----------------------------
(***************************************************************************)
(* peekmd: the live folder-sync engine of the preview server.              *)
(*                                                                         *)
(*   src/src/config.js        the configuration file and the ignore policy *)
(*   src/unnamed/part_000     watcher.js: createWatcher/createConfigWatcher *)
(*   src/bin/peekmd.js        lines 645-920: server.js (registry,           *)
(*                            reconciler, broadcast hub, API routes)        *)
(*                                                                         *)
(* One server process (single-threaded event loop: every handler below is  *)
(* one atomic step up to its first await), the configuration file shared   *)
(* with CLI processes and editors, and the browser connections.            *)
(***************************************************************************)
EXTENDS Integers, Sequences, FiniteSets, TLC

(***************************************************************************)
(* Bounds of the model.                                                    *)
(***************************************************************************)
\* live chokidar handles the model lets exist at once (the code keeps at
\* most one per root; the slack is for handles a faulty registry would leak)
MaxHandles == 3
\* POST /api/link handlers suspended at their await at once
MaxPendingLink == 1

(***************************************************************************)
(* The universe: root directories, the tree below each root, patterns.     *)
(***************************************************************************)
Roots == {"/r1", "/r2"}

\* what fs.existsSync / fs.statSync(abs).isDirectory() say (config.js:27-30)
StatKind(abs) ==
    CASE abs \in Roots -> "dir"
      [] abs = "/r1/a.md" -> "file"
      [] OTHER -> "none"

\* path.resolve(dir) (config.js:26,41): absolute and normalised, so a
\* trailing separator or a dot segment is dropped
Resolve(dir) ==
    CASE dir = "/r1/" -> "/r1"
      [] OTHER -> dir

\* strings a client or the CLI passes as a folder
FolderArgs == {"/r1", "/r2", "/r1/", "/r1/a.md", "/nope"}

\* path.sep of the two platform families; the platform is an input of every
\* step that handles a path
Seps == {"/", "\\"}

\* the last segment's extension, as written on disk
ExtOf(seg) ==
    CASE seg = "a.md" -> ".md"
      [] seg = "b.MD" -> ".MD"
      [] seg = "c.md" -> ".md"
      [] seg = "d.txt" -> ".txt"
      [] seg = "e.pyc" -> ".pyc"
      [] OTHER -> ""

\* String.prototype.toLowerCase on an extension
ToLowerCase(ext) ==
    CASE ext = ".MD" -> ".md"
      [] OTHER -> ext

\* the tree below every root: directories and files, as segment sequences
Dirs == { <<"docs">>, <<"node_modules">> }
Files == { <<"a.md">>, <<"docs", "b.MD">>, <<"docs", "d.txt">>,
           <<"node_modules", "c.md">>, <<"e.pyc">> }

EVENTS == {"change", "add", "unlink"}

(***************************************************************************)
(* Ignore patterns (config.js:65-172).  A pattern is its glob string; the   *)
(* compiled matcher is the segment-wise glob the string parses to.         *)
(***************************************************************************)
\* config.js:65-111, the entries that can match a path of the tree above
\* (the list holds "**/target/**" twice, kept here)
DEFAULT_IGNORE ==
    << "**/node_modules/**", "**/dist/**", "**/*.pyc",
       "**/target/**", "**/target/**" >>

\* patterns a client, the CLI or an editor adds or removes
PatternArgs == { "**/docs/**" }

GS == [kind |-> "globstar"]
Lit(s) == [kind |-> "lit", name |-> s]
StarExt(e) == [kind |-> "star", ext |-> e]

\* picomatch(pattern, {dot: true}): the pattern split at "/" into segments
Parse(pattern) ==
    CASE pattern = "**/node_modules/**" -> << GS, Lit("node_modules"), GS >>
      [] pattern = "**/dist/**" -> << GS, Lit("dist"), GS >>
      [] pattern = "**/target/**" -> << GS, Lit("target"), GS >>
      [] pattern = "**/docs/**" -> << GS, Lit("docs"), GS >>
      [] pattern = "**/*.pyc" -> << GS, StarExt(".pyc") >>
      [] pattern = "**/a.md" -> << GS, Lit("a.md") >>
      [] OTHER -> << Lit(pattern) >>

SegMatch(ps, seg) ==
    CASE ps.kind = "lit" -> seg = ps.name
      [] ps.kind = "star" -> ExtOf(seg) = ps.ext
      [] OTHER -> TRUE

\* glob semantics: "**" matches any number of segments, zero included, so
\* "**/d/**" matches "d" itself as well as everything below it
RECURSIVE GlobMatch(_, _)
GlobMatch(pat, segs) ==
    IF pat = << >> THEN segs = << >>
    ELSE IF Head(pat).kind = "globstar"
         THEN \/ GlobMatch(Tail(pat), segs)
              \/ /\ segs # << >>
                 /\ GlobMatch(pat, Tail(segs))
         ELSE /\ segs # << >>
              /\ SegMatch(Head(pat), Head(segs))
              /\ GlobMatch(Tail(pat), Tail(segs))

(***************************************************************************)
(* Sequence helpers (Array.prototype.includes / indexOf / splice / push).  *)
(***************************************************************************)
Range(s) == { s[i] : i \in 1..Len(s) }
Includes(s, x) == x \in Range(s)
IndexOf(s, x) ==
    IF Includes(s, x)
    THEN CHOOSE i \in 1..Len(s) : s[i] = x /\ \A j \in 1..(i-1) : s[j] # x
    ELSE 0
Splice1(s, idx) == SubSeq(s, 1, idx - 1) \o SubSeq(s, idx + 1, Len(s))


(***************************************************************************)
(* The configuration file (config.js:7-49, 113-146).  The file either      *)
(* parses to a JSON object or does not; an object may lack either key.     *)
(***************************************************************************)
Data(hf, fs, hi, ig) ==
    [hasFolders |-> hf, folders |-> fs, hasIgnore |-> hi, ignore |-> ig]

\* a file that is absent or is not valid JSON
BadFile == [ok |-> FALSE, data |-> Data(FALSE, << >>, FALSE, << >>)]

\* config.js:9-15
read(file) ==
    IF file.ok THEN file.data ELSE Data(TRUE, << >>, FALSE, << >>)

\* config.js:17-19; JSON.stringify drops a key whose value is undefined
write(data) == [ok |-> TRUE, data |-> data]

\* config.js:21-23: read().folders, undefined when the key is missing
HasFolders(file) == read(file).hasFolders
getFolders(file) == read(file).folders

\* a linkFolder without the existsSync / isDirectory tests
linkFolderNoStat(file, dir) ==
    LET abs == Resolve(dir)
        data == read(file)
    IN  IF ~data.hasFolders
        THEN [file |-> file, added |-> FALSE, path |-> abs, error |-> "",
              threw |-> TRUE, cleared |-> FALSE]
        ELSE IF Includes(data.folders, abs)
        THEN [file |-> file, added |-> FALSE, path |-> abs, error |-> "",
              threw |-> FALSE, cleared |-> FALSE]
        ELSE [file |-> write([data EXCEPT !.folders = Append(@, abs)]),
              added |-> TRUE, path |-> abs, error |-> "",
              threw |-> FALSE, cleared |-> TRUE]

\* config.js:25-38.  threw: data.folders.includes on undefined
linkFolder(file, dir) ==
    LET abs == Resolve(dir)
        data == read(file)
    IN  IF StatKind(abs) = "none"
        THEN [file |-> file, added |-> FALSE, path |-> abs,
              error |-> "path does not exist", threw |-> FALSE,
              cleared |-> FALSE]
        ELSE IF StatKind(abs) # "dir"
        THEN [file |-> file, added |-> FALSE, path |-> abs,
              error |-> "not a directory", threw |-> FALSE,
              cleared |-> FALSE]
        ELSE IF ~data.hasFolders
        THEN [file |-> file, added |-> FALSE, path |-> abs, error |-> "",
              threw |-> TRUE, cleared |-> FALSE]
        ELSE IF Includes(data.folders, abs)
        THEN [file |-> file, added |-> FALSE, path |-> abs, error |-> "",
              threw |-> FALSE, cleared |-> FALSE]
        ELSE [file |-> write([data EXCEPT !.folders = Append(@, abs)]),
              added |-> TRUE, path |-> abs, error |-> "",
              threw |-> FALSE, cleared |-> TRUE]

\* an unlinkFolder that removes the last entry instead of the one found
unlinkFolderLast(file, dir) ==
    LET abs == Resolve(dir)
        data == read(file)
        idx == IndexOf(data.folders, abs)
    IN  IF ~data.hasFolders
        THEN [file |-> file, removed |-> FALSE, path |-> abs,
              threw |-> TRUE, cleared |-> FALSE]
        ELSE IF idx = 0
        THEN [file |-> file, removed |-> FALSE, path |-> abs,
              threw |-> FALSE, cleared |-> FALSE]
        ELSE [file |-> write([data EXCEPT
                                !.folders = SubSeq(@, 1, Len(@) - 1)]),
              removed |-> TRUE, path |-> abs,
              threw |-> FALSE, cleared |-> TRUE]

\* config.js:40-49.  threw: data.folders.indexOf on undefined
unlinkFolder(file, dir) ==
    LET abs == Resolve(dir)
        data == read(file)
        idx == IndexOf(data.folders, abs)
    IN  IF ~data.hasFolders
        THEN [file |-> file, removed |-> FALSE, path |-> abs,
              threw |-> TRUE, cleared |-> FALSE]
        ELSE IF idx = 0
        THEN [file |-> file, removed |-> FALSE, path |-> abs,
              threw |-> FALSE, cleared |-> FALSE]
        ELSE [file |-> write([data EXCEPT !.folders = Splice1(@, idx)]),
              removed |-> TRUE, path |-> abs,
              threw |-> FALSE, cleared |-> TRUE]

\* config.js:113-119: an absent ignore key is filled with the default list
ensureDefaults(file) ==
    LET data == read(file)
    IN  IF ~data.hasIgnore
        THEN write([data EXCEPT !.hasIgnore = TRUE, !.ignore = DEFAULT_IGNORE])
        ELSE file

\* an effective list that trusts the stored list once the key is present
getIgnorePatternsStored(file) ==
    LET data == read(file)
    IN  IF data.hasIgnore THEN data.ignore ELSE DEFAULT_IGNORE

\* config.js:121-125
getIgnorePatterns(file) ==
    LET data == read(file)
        user == IF data.hasIgnore THEN data.ignore ELSE << >>
    IN  DEFAULT_IGNORE \o user

\* config.js:127-135
addIgnorePattern(file, pattern) ==
    LET data0 == read(file)
        data == IF data0.hasIgnore THEN data0
                ELSE [data0 EXCEPT !.hasIgnore = TRUE, !.ignore = << >>]
    IN  IF Includes(data.ignore, pattern)
        THEN [file |-> file, added |-> FALSE, cleared |-> FALSE]
        ELSE [file |-> write([data EXCEPT !.ignore = Append(@, pattern)]),
              added |-> TRUE, cleared |-> TRUE]

\* config.js:137-146
removeIgnorePattern(file, pattern) ==
    LET data == read(file)
        idx == IndexOf(data.ignore, pattern)
    IN  IF ~data.hasIgnore \/ idx = 0
        THEN [file |-> file, removed |-> FALSE, cleared |-> FALSE]
        ELSE [file |-> write([data EXCEPT !.ignore = Splice1(@, idx)]),
              removed |-> TRUE, cleared |-> TRUE]

(***************************************************************************)
(* The compiled-matcher cache (config.js:148-172): pattern string ->        *)
(* matcher.  A path string is [sep, segs]: its segments and the separator  *)
(* that joins them.                                                        *)
(***************************************************************************)
EmptyCache == [p \in {} |-> << >>]

\* a cache looked up without the pattern as key: whatever matcher is cached
\* is returned
getGlobMatcherAnyCached(cache, pattern) ==
    IF DOMAIN cache # {} THEN cache[CHOOSE p \in DOMAIN cache : TRUE]
    ELSE Parse(pattern)

\* config.js:155-160, the matcher returned
getGlobMatcher(cache, pattern) ==
    IF pattern \in DOMAIN cache THEN cache[pattern] ELSE Parse(pattern)

\* applying a compiled matcher to a relative path
Matches(matcher, rel) == GlobMatch(matcher, rel.segs)

\* an isIgnored where a later pattern overrides the earlier ones
isIgnoredLastWins(file, cache, rel) ==
    LET patterns == getIgnorePatterns(file)
    IN  Matches(getGlobMatcher(cache, patterns[Len(patterns)]), rel)

\* config.js:166-172, the value returned
isIgnored(file, cache, rel) ==
    LET patterns == getIgnorePatterns(file)
    IN  \E i \in 1..Len(patterns) :
            Matches(getGlobMatcher(cache, patterns[i]), rel)

\* config.js:166-172, the cache afterwards: every pattern up to and
\* including the first that matched has been compiled (config.js:156-158)
CacheAfter(file, cache, rel) ==
    LET patterns == getIgnorePatterns(file)
        hits == { i \in 1..Len(patterns) :
                    Matches(getGlobMatcher(cache, patterns[i]), rel) }
        last == IF hits = {} THEN Len(patterns)
                ELSE CHOOSE i \in hits : \A j \in hits : i <= j
        tried == { patterns[i] : i \in 1..last }
    IN  [p \in DOMAIN cache \cup tried |->
            IF p \in DOMAIN cache THEN cache[p] ELSE Parse(p)]


(***************************************************************************)
(* State.                                                                  *)
(***************************************************************************)
VARIABLES
    phase,        \* "boot": createServer not run yet; "running"; "crashed"
    extraDirs,    \* createServer's extraDirs (session-only roots), a list
    file,         \* the configuration file ~/.peekmd.json
    cfgPending,   \* the config watcher holds a change it has not reported
    watchers,     \* server.js `watchers`: root -> handle id
    handles,      \* the chokidar watchers created and not closed, by id
    globCache,    \* config.js `_globCache` of the server process
    conn,         \* every browser connection: "absent", "OPEN", "CLOSING"
    pendingLink,  \* POST /api/link handlers suspended at their await
    lastOp,       \* what the last step was and what it did
    sent,         \* the events broadcast() was called with in the last step
    out,          \* what each connection was sent in the last step
    loop,         \* the server's event loop: the callback that is running,
                  \* statement by statement, and the suspended ones
    client,       \* one browser page (app.js): its socket, retryDelay, preview
    daemon,       \* the PID file, the processes alive, what the CLI spawned
    wire          \* the watchers' emissions and the messages on their way to
                  \* the browsers

vars == << phase, extraDirs, file, cfgPending, watchers, handles,
           globCache, conn, pendingLink, lastOp, sent, out,
           loop, client, daemon, wire >>

\* the state outside the server's handlers taken as single steps
aux == << loop, client, daemon, wire >>

\* a callback's frame: the function, the statement it is at, its locals
\* (the loop's remaining folders, currentFolders, allFolders, the argument,
\* the registry and the file when the registry operation began) and whether
\* it has come back from the await it is at
Frame(fn, pc, todo, cur, all, arg, at, cfg, yielded) ==
    [fn |-> fn, pc |-> pc, todo |-> todo, cur |-> cur, all |-> all,
     arg |-> arg, at |-> at, cfg |-> cfg, yielded |-> yielded]

NoFrame ==
    Frame("none", "", << >>, {}, << >>, "",
          [w |-> [x \in {} |-> 0], h |-> [i \in {} |-> 0]], BadFile, FALSE)

\* no callback on the stack, none suspended
LoopIdle == [running |-> NoFrame, suspended |-> {}]

\* "" as a path, and no message
NoPath == [sep |-> "/", segs |-> << >>]
NoMsg == [type |-> "", folder |-> "", path |-> NoPath]

\* app.js before DOMContentLoaded (5-6, 822): no socket, no timer, nothing
\* selected.  disk: the markdown files that exist below the roots; shown:
\* the file whose rendering or deleted notice fills the preview; rendered:
\* renderMarkdown ran in the last step; prev: retryDelay before the last step;
\* pending: the api.file requests in flight; live: the sockets that are
\* connecting or open
ClientStart ==
    [ws |-> "none", retryDelay |-> 0, prev |-> 0, timers |-> << >>,
     connects |-> 0, closes |-> 0, connected |-> FALSE,
     activeFolderPath |-> "", activeFilePath |-> NoPath,
     body |-> "none", shownFolder |-> "", shown |-> NoPath,
     rendered |-> FALSE, disk |-> {}, last |-> "none", msg |-> NoMsg,
     pending |-> {}, live |-> 0]

\* the CLI processes that may run at the same time
CliProcs == {"p1", "p2"}

\* no command running in a CLI slot.  id: what pid.read returned; sawMine:
\* a process with that pid existed that the user may signal; sawLive: a
\* process with that pid existed;
\* child: the pid it spawned; recorded: it wrote that pid to the PID file;
\* touched: it removed or wrote the PID file
IdleCli == [cmd |-> "none", pc |-> "", id |-> 0, sawMine |-> FALSE,
            sawLive |-> FALSE, child |-> 0, recorded |-> FALSE,
            touched |-> FALSE]

\* a process that is changing nothing in the configuration file.  op: the
\* config.js function it runs and its argument; data: what its read() saw
NoEdit == [pc |-> "idle", op |-> [kind |-> "", arg |-> ""],
          data |-> [ok |-> FALSE, data |-> << >>]]

\* no PID file (0), no process.  mine: the live processes the user may
\* signal; foreign: the live processes of other users; spawned: how many
\* daemons the CLI spawned; edit: the configuration change each process is
\* making
DaemonStart == [pidFile |-> 0, mine |-> {}, foreign |-> {}, spawned |-> 0,
                cli |-> [p \in {"p1", "p2"} |-> IdleCli],
                edit |-> [p \in {"p1", "p2"} |-> NoEdit]]

\* nothing emitted, nothing in flight, nothing received
WireStart ==
    [emitted |-> << >>,
     since |-> [c \in {"c1", "c2"} |-> 0],
     inbox |-> [c \in {"c1", "c2"} |-> << >>],
     got |-> [c \in {"c1", "c2"} |-> << >>]]

AuxInit ==
    /\ wire = WireStart
    /\ loop = LoopIdle
    /\ client = ClientStart
    /\ daemon = DaemonStart

Clients == {"c1", "c2"}

(***************************************************************************)
(* Directory watcher (part_000:16-49).                                     *)
(***************************************************************************)
\* an absolute path below a root, as the platform writes it
Abs(root, segs, sep) == [root |-> root, segs |-> segs, sep |-> sep]

\* path.relative(dir, filePath): the part below dir, platform separators
Relative(dir, absPath) ==
    IF absPath.root = dir
    THEN [sep |-> absPath.sep, segs |-> absPath.segs]
    ELSE [sep |-> absPath.sep, segs |-> << "..", absPath.root >> \o absPath.segs]

\* .split(path.sep).join("/")
SplitJoin(rel, sep) ==
    IF rel.sep = sep THEN [sep |-> "/", segs |-> rel.segs] ELSE rel

\* absPath.toLowerCase().endsWith(".md")
EndsWithMd(absPath) ==
    /\ absPath.segs # << >>
    /\ ToLowerCase(ExtOf(absPath.segs[Len(absPath.segs)])) = ".md"

\* part_000:17-23, the `ignored` function handed to chokidar
ignored(f, cache, sep, dir, filePath) ==
    LET rel == SplitJoin(Relative(dir, filePath), sep)
    IN  IF rel.segs = << >> \/ rel.segs = << "." >> THEN FALSE
        ELSE isIgnored(f, cache, rel)

\* part_000:25-34: chokidar.watch returns at once; the tree is scanned later
createWatcher(dir) == [dir |-> dir, scanned |-> FALSE, pruned |-> {}]

\* chokidar's scan of the tree below a new watcher's root: a directory the
\* `ignored` function rejects at that moment is not descended into and gets
\* no OS watch (part_000:25-27)
PrunedAtScan(f, cache, sep, dir) ==
    { d \in Dirs : ignored(f, cache, sep, dir, Abs(dir, d, sep)) }

\* a file lies below a directory pruned at the scan
BelowPruned(h, segs) ==
    \E d \in h.pruned : Len(d) < Len(segs) /\ SubSeq(segs, 1, Len(d)) = d

\* the paths the `ignored` function is asked about during a scan
ScanVisits(f, cache, sep, dir) ==
    { Abs(dir, d, sep) : d \in Dirs } \cup
    { Abs(dir, s, sep) : s \in
        { x \in Files : ~\E d \in PrunedAtScan(f, cache, sep, dir) :
                           Len(d) < Len(x) /\ SubSeq(x, 1, Len(d)) = d } }

\* the cache after isIgnored has been asked about every path of a set
CacheAfterAll(f, cache, rels) ==
    LET tried == UNION { DOMAIN CacheAfter(f, cache, r) : r \in rels }
    IN  [p \in tried |-> IF p \in DOMAIN cache THEN cache[p] ELSE Parse(p)]

\* an event handler that forgets the ignore policy
OnEventNoIgnore(f, cache, sep, dir, event, absPath) ==
    LET rel == SplitJoin(Relative(dir, absPath), sep)
    IN  IF ~EndsWithMd(absPath) THEN << >>
        ELSE << [type |-> event, folder |-> dir, path |-> rel] >>

\* part_000:39-46, one raw chokidar event: the messages handed to broadcast
OnEvent(f, cache, sep, dir, event, absPath) ==
    LET rel == SplitJoin(Relative(dir, absPath), sep)
    IN  IF ~EndsWithMd(absPath) THEN << >>
        ELSE IF isIgnored(f, cache, rel) THEN << >>
        ELSE << [type |-> event, folder |-> dir, path |-> rel] >>

\* part_000:39-46, the cache after the handler
OnEventCache(f, cache, sep, dir, absPath) ==
    IF ~EndsWithMd(absPath) THEN cache
    ELSE CacheAfter(f, cache, SplitJoin(Relative(dir, absPath), sep))

(***************************************************************************)
(* Broadcast hub (peekmd.js:676-679).                                      *)
(***************************************************************************)
\* JSON.stringify(data)
Stringify(data) == [json |-> data]

\* wss.clients
WssClients(cn) == { c \in Clients : cn[c] # "absent" }

\* a broadcast that skips the readyState test
SendTargetsNoCheck(cn) == WssClients(cn)

\* peekmd.js:678: the connections c.send(msg) is called on
SendTargets(cn) == { c \in WssClients(cn) : cn[c] = "OPEN" }

\* peekmd.js:676-679: what each connection receives (a socket that is not
\* open transmits nothing)
broadcast(cn, data) ==
    [c \in Clients |->
        IF c \in SendTargets(cn) /\ cn[c] = "OPEN"
        THEN << Stringify(data) >> ELSE << >>]

\* ws raises "WebSocket is not open" from send() on a socket that is not
\* open, which ends the loop of line 678 and reaches broadcast's caller
broadcastRaises(cn) == \E c \in SendTargets(cn) : cn[c] # "OPEN"

\* the events of one step, broadcast one after the other
RECURSIVE BroadcastAll(_, _)
BroadcastAll(cn, msgs) ==
    IF msgs = << >> THEN [c \in Clients |-> << >>]
    ELSE [c \in Clients |->
            broadcast(cn, Head(msgs))[c] \o BroadcastAll(cn, Tail(msgs))[c]]

NoOut == [c \in Clients |-> << >>]
FoldersChanged == [type |-> "folders-changed"]

(***************************************************************************)
(* Watcher registry and reconciler (peekmd.js:681-729).  The operators     *)
(* take and return reg = [w, h, started, stopped]: the root -> id map, the *)
(* live handles, and the roots a watcher was created for / closed for.     *)
(***************************************************************************)
Reg(w, h) == [w |-> w, h |-> h, started |-> {}, stopped |-> {}]

Without(fn, x) == [y \in DOMAIN fn \ {x} |-> fn[y]]

\* the identity of a new chokidar watcher: an id no live handle has.  Ids
\* are drawn per root (1, 3, 5.. for /r1 and 2, 4, 6.. for /r2)
RootIndex(folder) == IF folder = "/r1" THEN 1 ELSE 2
HandleIds == 1..(2 * (MaxHandles + 1))
FreshId(h, folder) ==
    CHOOSE i \in HandleIds :
        /\ i \notin DOMAIN h
        /\ i % 2 = RootIndex(folder) % 2
        /\ \A j \in 1..(i - 1) : j % 2 = i % 2 => j \in DOMAIN h

\* a startWatcher without the watchers.has test: the map entry is overwritten
\* and the previous chokidar watcher stays open
startWatcherNoCheck(reg, folder) ==
    LET id == FreshId(reg.h, folder)
    IN  [w |-> [x \in DOMAIN reg.w \cup {folder} |->
                  IF x = folder THEN id ELSE reg.w[x]],
         h |-> reg.h @@ (id :> createWatcher(folder)),
         started |-> reg.started \cup {folder},
         stopped |-> reg.stopped]

\* peekmd.js:681-688
startWatcher(reg, folder) ==
    IF folder \in DOMAIN reg.w THEN reg
    ELSE LET id == FreshId(reg.h, folder)
         IN  [w |-> reg.w @@ (folder :> id),
              h |-> reg.h @@ (id :> createWatcher(folder)),
              started |-> reg.started \cup {folder},
              stopped |-> reg.stopped]

\* a stopWatcher that forgets w.close(): the entry goes, the watcher stays
stopWatcherNoClose(reg, folder) ==
    IF folder \in DOMAIN reg.w
    THEN [w |-> Without(reg.w, folder),
          h |-> reg.h,
          started |-> reg.started,
          stopped |-> reg.stopped \cup {folder}]
    ELSE reg

\* peekmd.js:690-696
stopWatcher(reg, folder) ==
    IF folder \in DOMAIN reg.w
    THEN [w |-> Without(reg.w, folder),
          h |-> Without(reg.h, reg.w[folder]),
          started |-> reg.started,
          stopped |-> reg.stopped \cup {folder}]
    ELSE reg

\* for (const folder of list) startWatcher(folder, wss)
RECURSIVE StartEach(_, _)
StartEach(reg, list) ==
    IF list = << >> THEN reg
    ELSE StartEach(startWatcher(reg, Head(list)), Tail(list))

\* peekmd.js:765-769 (and 712-713): config folders, then the extra
\* directories that are not among them
RECURSIVE PushMissing(_, _)
PushMissing(linked, extra) ==
    IF extra = << >> THEN linked
    ELSE PushMissing(IF Includes(linked, Head(extra)) THEN linked
                     ELSE Append(linked, Head(extra)), Tail(extra))

getAllFolders(f, extra) == PushMissing(getFolders(f), extra)

\* peekmd.js:765-769 and 892: getAllFolders, or the for-of over its result,
\* raises a TypeError when the folders key is missing
getAllFoldersThrows(f, extra) == ~HasFolders(f)

\* a stop loop without the targetFolders.has test
RECURSIVE StopOutsideAll(_, _, _)
StopOutsideAll(reg, current, target) ==
    IF current = {} THEN reg
    ELSE LET folder == CHOOSE x \in current : TRUE
         IN  StopOutsideAll(stopWatcher(reg, folder), current \ {folder},
                            target)

\* peekmd.js:716-720
RECURSIVE StopOutside(_, _, _)
StopOutside(reg, current, target) ==
    IF current = {} THEN reg
    ELSE LET folder == CHOOSE x \in current : TRUE
         IN  StopOutside(IF folder \notin target THEN stopWatcher(reg, folder)
                         ELSE reg, current \ {folder}, target)

\* peekmd.js:722-726
RECURSIVE StartMissing(_, _, _)
StartMissing(reg, list, current) ==
    IF list = << >> THEN reg
    ELSE StartMissing(IF Head(list) \notin current
                      THEN startWatcher(reg, Head(list)) ELSE reg,
                      Tail(list), current)

\* a reconciler that forgets the extra directories
syncWatchersConfigOnly(reg, f, extra) ==
    LET currentFolders == DOMAIN reg.w
        allFolders == getFolders(f)
        targetFolders == Range(allFolders)
    IN  StartMissing(StopOutside(reg, currentFolders, targetFolders),
                     allFolders, currentFolders)

\* peekmd.js:709-729 (the registry; the cache is cleared by the caller's
\* step, line 728).  Only called when the folders key is present.
syncWatchers(reg, f, extra) ==
    LET currentFolders == DOMAIN reg.w
        allFolders == PushMissing(getFolders(f), extra)
        targetFolders == Range(allFolders)
    IN  StartMissing(StopOutside(reg, currentFolders, targetFolders),
                     allFolders, currentFolders)

\* peekmd.js:712: [...configFolders] raises when the folders key is missing
syncWatchersThrows(f) == ~HasFolders(f)

\* a restart that clears the map without closing the watchers
CloseAllNoClose(reg) ==
    [w |-> [x \in {} |-> 0],
     h |-> reg.h,
     started |-> reg.started,
     stopped |-> reg.stopped \cup DOMAIN reg.w]

\* peekmd.js:699-702: every watcher closed, the map cleared
CloseAll(reg) ==
    [w |-> [x \in {} |-> 0],
     h |-> [i \in DOMAIN reg.h \ { reg.w[x] : x \in DOMAIN reg.w } |-> reg.h[i]],
     started |-> reg.started,
     stopped |-> reg.stopped \cup DOMAIN reg.w]

\* peekmd.js:698-707; when the folders key is missing the for-of of line
\* 704 raises after the watchers were closed
restartAllWatchers(reg, f) ==
    IF HasFolders(f) THEN StartEach(CloseAll(reg), getFolders(f))
    ELSE CloseAll(reg)

restartAllWatchersThrows(f) == ~HasFolders(f)


(***************************************************************************)
(* File listing (peekmd.js:660-674): the paths scanMarkdown asks the       *)
(* ignore policy about: every entry of a directory it descends into.       *)
(***************************************************************************)
scanMarkdownVisits(f, cache, sep) ==
    LET rel(s) == [sep |-> sep, segs |-> s]
        skipped == { d \in Dirs : isIgnored(f, cache, rel(d)) }
    IN  { rel(d) : d \in Dirs } \cup
        { rel(x) : x \in { y \in Files : ~\E d \in skipped :
                     Len(d) < Len(y) /\ SubSeq(y, 1, Len(d)) = d } }

(***************************************************************************)
(* Steps.                                                                  *)
(***************************************************************************)
NoRaw == << >>

\* op: the handler; changed: it changed the configuration or the registry;
\* threw: it raised; started/stopped: the roots createWatcher / close ran for;
\* arg, raw: for a file change, the root and the file below it
Op(op, arg, changed, threw, reg, raw) ==
    [op |-> op, arg |-> arg, changed |-> changed, threw |-> threw,
     started |-> reg.started, stopped |-> reg.stopped, raw |-> raw]

\* the registry, the step's record and its broadcasts
Effect(op, arg, changed, threw, reg, raw, msgs) ==
    \E r \in {reg}, m \in {msgs} :
        /\ Cardinality(DOMAIN r.h) <= MaxHandles
        /\ watchers' = r.w
        /\ handles' = r.h
        /\ lastOp' = Op(op, arg, changed,
                        threw \/ (m # << >> /\ broadcastRaises(conn)), r, raw)
        /\ UNCHANGED aux
        /\ sent' = m
        /\ out' = BroadcastAll(conn, m)

Here == Reg(watchers, handles)

\* configurations an editor can leave in the file, and that the file may
\* hold when the server starts
EditChoices ==
    { BadFile,
      write(Data(FALSE, << >>, FALSE, << >>)),
      write(Data(TRUE, << >>, FALSE, << >>)),
      write(Data(TRUE, << "/r1" >>, FALSE, << >>)),
      write(Data(TRUE, << "/r2", "/r1" >>, TRUE, << >>)),
      write(Data(TRUE, << "/r2" >>, TRUE, << "**/docs/**" >>)) }

\* peekmd.js:388: the directories given to `peekmd start`
ExtraChoices == { << >>, << "/r1" >>, << "/r1", "/r2" >> }

Init ==
    /\ phase = "boot"
    /\ extraDirs \in ExtraChoices
    /\ file \in EditChoices
    /\ cfgPending = FALSE
    /\ watchers = [x \in {} |-> 0]
    /\ handles = [i \in {} |-> createWatcher("")]
    /\ globCache = EmptyCache
    /\ conn = [c \in Clients |-> "absent"]
    /\ pendingLink = 0
    /\ lastOp = Op("init", "", FALSE, FALSE, Here, NoRaw)
    /\ sent = << >>
    /\ AuxInit
    /\ out = NoOut

\* peekmd.js:755-900 createServer: ensureDefaults, one watcher per folder of
\* getAllFolders, then the config watcher.  A TypeError rejects the promise
\* and peekmd.js:391 exits the process.
Boot ==
    /\ phase = "boot"
    /\ file' = ensureDefaults(file)
    /\ IF getAllFoldersThrows(file', extraDirs)
       THEN /\ phase' = "crashed"
            /\ Effect("boot", "", FALSE, TRUE, Here, NoRaw, << >>)
       ELSE /\ phase' = "running"
            /\ Effect("boot", "", TRUE, FALSE,
                      StartEach(Here, getAllFolders(file', extraDirs)),
                      NoRaw, << >>)
    /\ UNCHANGED << extraDirs, cfgPending, globCache, conn,
                    pendingLink >>

\* chokidar's initial scan of a new watcher's tree (part_000:17-27)
Scan(id, pathSep) ==
    /\ phase = "running"
    /\ id \in DOMAIN handles
    /\ ~handles[id].scanned
    /\ LET dir == handles[id].dir
           visits == ScanVisits(file, globCache, pathSep, dir)
       IN  /\ handles' = [handles EXCEPT ![id] =
                  [dir |-> dir, scanned |-> TRUE,
                   pruned |-> PrunedAtScan(file, globCache, pathSep, dir)]]
           /\ globCache' = CacheAfterAll(file, globCache,
                  { SplitJoin(Relative(dir, a), pathSep) : a \in visits })
           /\ lastOp' = Op("scan", "", FALSE, FALSE, Here, NoRaw)
    /\ UNCHANGED aux
    /\ sent' = << >>
    /\ out' = NoOut
    /\ UNCHANGED << phase, extraDirs, file, cfgPending, watchers,
                    conn, pendingLink >>

\* every live chokidar watcher of a root
LiveFor(root) == { id \in DOMAIN handles : handles[id].dir = root }

\* the events one file change makes the given watchers hand to broadcast
RECURSIVE EventsOf(_, _, _, _)
EventsOf(ids, event, segs, pathSep) ==
    IF ids = {} THEN << >>
    ELSE LET id == CHOOSE i \in ids : \A j \in ids : i <= j
             dir == handles[id].dir
         IN  OnEvent(file, globCache, pathSep, dir, event,
                     Abs(dir, segs, pathSep))
             \o EventsOf(ids \ {id}, event, segs, pathSep)

\* the record and the broadcasts of a step in which a file changed: the
\* registry stays, the record also names the kind of change
EventEffect(root, event, segs, msgs) ==
    \E m \in {msgs} :
        /\ watchers' = watchers
        /\ handles' = handles
        /\ lastOp' = [event |-> event] @@
                     Op("fsChange", root, FALSE,
                        m # << >> /\ broadcastRaises(conn), Here, segs)
        /\ UNCHANGED aux
        /\ sent' = m
        /\ out' = BroadcastAll(conn, m)

\* a file below a root is created, written or deleted.  Every watcher that
\* has an OS watch on its directory reports it (part_000:39-46); a root
\* nobody watches reports nothing.
FsChange(root, event, segs, pathSep) ==
    /\ phase = "running"
    /\ LET ids == { id \in LiveFor(root) :
                      handles[id].scanned /\ ~BelowPruned(handles[id], segs) }
       IN  /\ EventEffect(root, event, segs,
                          EventsOf(ids, event, segs, pathSep))
           /\ globCache' =
                 IF ids = {} THEN globCache
                 ELSE OnEventCache(file, globCache, pathSep, root,
                                   Abs(root, segs, pathSep))
    /\ UNCHANGED << phase, extraDirs, file, cfgPending, conn, pendingLink >>

(***************************************************************************)
(* API routes (peekmd.js:809-829, 866-888).                                *)
(***************************************************************************)
\* POST /api/link up to its await (peekmd.js:809-816)
ApiLink(folder) ==
    /\ phase = "running"
    /\ \E result \in {linkFolder(file, folder)} :
           IF folder = ""
           THEN \* 811: 400 folder required
                /\ Effect("link", "", FALSE, FALSE, Here, NoRaw, << >>)
                /\ UNCHANGED << phase, file, cfgPending, globCache,
                                pendingLink >>
           ELSE IF result.threw
           THEN \* the async handler rejects: an unhandled rejection ends
                \* the process unless the framework catches it
                /\ phase' \in {"running", "crashed"}
                /\ Effect("link", "", FALSE, TRUE, Here, NoRaw, << >>)
                /\ UNCHANGED << file, cfgPending, globCache, pendingLink >>
           ELSE IF result.error # ""
           THEN \* 814: 400 with the error
                /\ Effect("link", result.error, FALSE, FALSE, Here, NoRaw,
                          << >>)
                /\ UNCHANGED << phase, file, cfgPending, globCache,
                                pendingLink >>
           ELSE IF result.added
           THEN \* 815-816: watcher started, then await scanMarkdown
                /\ pendingLink < MaxPendingLink
                /\ pendingLink' = pendingLink + 1
                /\ file' = result.file
                /\ cfgPending' = TRUE
                /\ globCache' = EmptyCache
                /\ Effect("link", "", TRUE, FALSE,
                          startWatcher(Here, result.path), NoRaw, << >>)
                /\ UNCHANGED phase
           ELSE \* already linked: 817 without suspending
                /\ Effect("link", "", FALSE, FALSE, Here, NoRaw,
                          << FoldersChanged >>)
                /\ UNCHANGED << phase, file, cfgPending, globCache,
                                pendingLink >>
    /\ UNCHANGED << extraDirs, conn >>

\* POST /api/link after its await (peekmd.js:816-818): the listing has asked
\* the ignore policy about the new root's entries; folders-changed is sent
ApiLinkResume(pathSep) ==
    /\ phase = "running"
    /\ pendingLink > 0
    /\ pendingLink' = pendingLink - 1
    /\ globCache' = CacheAfterAll(file, globCache,
                        scanMarkdownVisits(file, globCache, pathSep))
    /\ Effect("linkDone", "", FALSE, FALSE, Here, NoRaw, << FoldersChanged >>)
    /\ UNCHANGED << phase, extraDirs, file, cfgPending, conn >>

\* POST /api/unlink (peekmd.js:821-829)
ApiUnlink(folder) ==
    /\ phase = "running"
    /\ \E result \in {unlinkFolder(file, folder)} :
           IF folder = ""
           THEN /\ Effect("unlink", "", FALSE, FALSE, Here, NoRaw, << >>)
                /\ UNCHANGED << file, cfgPending, globCache >>
           ELSE IF result.threw
           THEN \* the framework answers 500
                /\ Effect("unlink", "", FALSE, TRUE, Here, NoRaw, << >>)
                /\ UNCHANGED << file, cfgPending, globCache >>
           ELSE /\ file' = result.file
                /\ cfgPending' = (cfgPending \/ result.removed)
                /\ globCache' = IF result.cleared THEN EmptyCache ELSE globCache
                /\ Effect("unlink", "", result.removed, FALSE,
                          IF result.removed
                          THEN stopWatcher(Here, result.path) ELSE Here,
                          NoRaw, << FoldersChanged >>)
    /\ UNCHANGED << phase, extraDirs, conn, pendingLink >>

\* peekmd.js:871-874 and 883-886: after a change of the pattern list
AfterPatternChange(op, pattern, newFile) ==
    /\ file' = newFile
    /\ cfgPending' = TRUE
    /\ globCache' = EmptyCache
    /\ IF restartAllWatchersThrows(newFile)
       THEN Effect(op, "", TRUE, TRUE,
                   restartAllWatchers(Here, newFile), NoRaw, << >>)
       ELSE Effect(op, "", TRUE, FALSE,
                   restartAllWatchers(Here, newFile), NoRaw,
                   << FoldersChanged >>)

\* POST /api/ignore (peekmd.js:866-876)
ApiIgnore(pattern) ==
    /\ phase = "running"
    /\ \E result \in {addIgnorePattern(file, pattern)} :
           IF pattern = "" \/ ~result.added
           THEN /\ Effect("ignore", "", FALSE, FALSE, Here, NoRaw, << >>)
                /\ UNCHANGED << file, cfgPending, globCache >>
           ELSE AfterPatternChange("ignore", pattern, result.file)
    /\ UNCHANGED << phase, extraDirs, conn, pendingLink >>

\* POST /api/unignore (peekmd.js:878-888)
ApiUnignore(pattern) ==
    /\ phase = "running"
    /\ \E result \in {removeIgnorePattern(file, pattern)} :
           IF pattern = "" \/ ~result.removed
           THEN /\ Effect("unignore", "", FALSE, FALSE, Here, NoRaw, << >>)
                /\ UNCHANGED << file, cfgPending, globCache >>
           ELSE AfterPatternChange("unignore", pattern, result.file)
    /\ UNCHANGED << phase, extraDirs, conn, pendingLink >>

(***************************************************************************)
(* Config change monitor (part_000:57-74, peekmd.js:894-897).              *)
(***************************************************************************)
\* the "change" listener.  An exception raised in it is not caught by
\* anything and ends the process.
ConfigChanged ==
    /\ phase = "running"
    /\ cfgPending
    /\ cfgPending' = FALSE
    /\ IF syncWatchersThrows(file)
       THEN /\ phase' = "crashed"
            /\ Effect("configChange", "", FALSE, TRUE, Here, NoRaw, << >>)
            /\ UNCHANGED globCache
       ELSE /\ phase' = "running"
            /\ globCache' = EmptyCache
            /\ Effect("configChange", "", TRUE, FALSE,
                      syncWatchers(Here, file, extraDirs), NoRaw,
                      << FoldersChanged >>)
    /\ UNCHANGED << extraDirs, file, conn, pendingLink >>

(***************************************************************************)
(* The environment: CLI commands run in other processes (peekmd.js:135-162,*)
(* 299-335), editors, and browsers.                                        *)
(***************************************************************************)
External(op, newFile) ==
    /\ phase = "running"
    /\ newFile # file
    /\ file' = newFile
    /\ cfgPending' = TRUE
    /\ lastOp' = Op(op, "", TRUE, FALSE, Here, NoRaw)
    /\ UNCHANGED aux
    /\ sent' = << >>
    /\ out' = NoOut
    /\ UNCHANGED << phase, extraDirs, watchers, handles, globCache,
                    conn, pendingLink >>

CliLink(dir) == External("external", linkFolder(file, dir).file)
CliUnlink(dir) == External("external", unlinkFolder(file, dir).file)
CliIgnore(pattern) == External("external", addIgnorePattern(file, pattern).file)
CliUnignore(pattern) == External("external", removeIgnorePattern(file, pattern).file)
DirectEdit(newFile) == External("external", newFile)

ConnStep(c, from, to) ==
    /\ phase = "running"
    /\ conn[c] \in from
    /\ conn' = [conn EXCEPT ![c] = to]
    /\ lastOp' = Op("conn", "", FALSE, FALSE, Here, NoRaw)
    /\ UNCHANGED aux
    /\ sent' = << >>
    /\ out' = NoOut
    /\ UNCHANGED << phase, extraDirs, file, cfgPending, watchers,
                    handles, globCache, pendingLink >>

\* a browser connects: ws adds the open socket to wss.clients
Connect(c) == ConnStep(c, {"absent"}, "OPEN")
\* a close handshake starts: readyState is CLOSING
BeginClose(c) == ConnStep(c, {"OPEN"}, "CLOSING")
\* the socket closes: ws removes it from wss.clients
Closed(c) == ConnStep(c, {"OPEN", "CLOSING"}, "absent")

\* the configuration and the registry: the server's handlers, the CLI and
\* editors; no browser is connected and no file below a root changes
Next ==
    \/ Boot
    \/ \E id \in HandleIds, sep \in Seps : Scan(id, sep)
    \/ \E d \in FolderArgs \cup {""} : ApiLink(d)
    \/ \E sep \in Seps : ApiLinkResume(sep)
    \/ \E d \in FolderArgs \cup {""} : ApiUnlink(d)
    \/ \E p \in PatternArgs \cup {""} : ApiIgnore(p)
    \/ \E p \in PatternArgs \cup {""} : ApiUnignore(p)
    \/ ConfigChanged
    \/ \E d \in FolderArgs : CliLink(d)
    \/ \E d \in FolderArgs : CliUnlink(d)
    \/ \E p \in PatternArgs : CliIgnore(p)
    \/ \E p \in PatternArgs : CliUnignore(p)
    \/ \E f \in EditChoices : DirectEdit(f)

Spec == Init /\ [][Next]_vars

\* the watchers at work: files below the roots change while folders are
\* unlinked and the pattern list is changed through the API and the CLI
WatchInit ==
    /\ Init
    /\ file \in { write(Data(TRUE, << "/r1" >>, FALSE, << >>)),
                  write(Data(TRUE, << "/r2" >>, TRUE, << "**/docs/**" >>)) }
    /\ extraDirs \in { << >>, << "/r1" >> }

WatchNext ==
    \/ Boot
    \/ \E id \in HandleIds, sep \in Seps : Scan(id, sep)
    \/ \E r \in Roots, e \in EVENTS, s \in Files, sep \in Seps :
          FsChange(r, e, s, sep)
    \/ \E d \in FolderArgs : ApiUnlink(d)
    \/ \E p \in PatternArgs : ApiIgnore(p)
    \/ \E p \in PatternArgs : ApiUnignore(p)
    \/ ConfigChanged
    \/ \E p \in PatternArgs : CliIgnore(p)
    \/ \E p \in PatternArgs : CliUnignore(p)
    \/ \E c \in Clients : Connect(c)

WatchSpec == WatchInit /\ [][WatchNext]_vars

\* the broadcast hub with browsers coming and going, over one valid
\* configuration that only the API changes
HubInit ==
    /\ Init
    /\ file = write(Data(TRUE, << "/r1" >>, FALSE, << >>))
    /\ extraDirs = << >>

HubNext ==
    \/ Boot
    \/ \E id \in HandleIds, sep \in Seps : Scan(id, sep)
    \/ \E r \in Roots, e \in EVENTS, s \in Files, sep \in Seps :
          FsChange(r, e, s, sep)
    \/ \E d \in FolderArgs : ApiLink(d)
    \/ \E sep \in Seps : ApiLinkResume(sep)
    \/ \E d \in FolderArgs : ApiUnlink(d)
    \/ \E c \in Clients : Connect(c)
    \/ \E c \in Clients : BeginClose(c)
    \/ \E c \in Clients : Closed(c)

HubSpec == HubInit /\ [][HubNext]_vars


(***************************************************************************)
(* Errors of the watch mechanism (part_000:36-37, 70-71).  chokidar        *)
(* reports them as an "error" event on the watcher; a Node EventEmitter    *)
(* raises an "error" event that has no listener as an exception.           *)
(***************************************************************************)
\* part_000:36-46: the events the directory watcher has a listener for
WatcherListeners == {"ready", "error"} \cup EVENTS

\* part_000:70-71: the events the configuration watcher has a listener for
ConfigWatcherListeners == {"change", "ready"}

\* EventEmitter.emit("error") with this set of listeners raises
EmitErrorThrows(listeners) == "error" \notin listeners

\* what a reported error does: nothing when a listener takes it; otherwise
\* the exception is raised inside chokidar's callback, nothing catches it
\* and the process ends
ErrorStep(op, arg, listeners) ==
    /\ phase = "running"
    /\ phase' = IF EmitErrorThrows(listeners) THEN "crashed" ELSE "running"
    /\ lastOp' = Op(op, arg, FALSE, EmitErrorThrows(listeners), Here, NoRaw)
    /\ UNCHANGED aux
    /\ sent' = << >>
    /\ out' = NoOut
    /\ UNCHANGED << extraDirs, file, cfgPending, watchers, handles,
                    globCache, conn, pendingLink >>

\* the OS watch of a directory watcher reports an error
WatcherError(id) ==
    /\ id \in DOMAIN handles
    /\ ErrorStep("watchError", handles[id].dir, WatcherListeners)

\* the OS watch of the configuration-file watcher reports an error
ConfigWatcherError == ErrorStep("configWatchError", "", ConfigWatcherListeners)

\* the server with failing watches: folders are linked and unlinked and
\* reconciled while the OS reports errors
ErrInit ==
    /\ Init
    /\ file = write(Data(TRUE, << "/r1" >>, FALSE, << >>))
    /\ extraDirs \in { << >>, << "/r2" >> }

ErrNext ==
    \/ Boot
    \/ \E id \in HandleIds, sep \in Seps : Scan(id, sep)
    \/ \E d \in FolderArgs : ApiLink(d)
    \/ \E sep \in Seps : ApiLinkResume(sep)
    \/ \E d \in FolderArgs : ApiUnlink(d)
    \/ ConfigChanged
    \/ \E id \in HandleIds : WatcherError(id)
    \/ ConfigWatcherError

ErrSpec == ErrInit /\ [][ErrNext]_vars

(***************************************************************************)
(* The ignore policy on its own (config.js:113-172): one process calls the *)
(* exported functions in any order while other processes and editors       *)
(* rewrite the configuration file.                                         *)
(***************************************************************************)
\* patterns handed to addIgnorePattern / removeIgnorePattern: two user
\* patterns and one that is also a built-in default
PolicyPatterns == { "**/docs/**", "**/a.md", "**/node_modules/**" }

\* files an editor leaves: absent, no ignore key, and a list with a
\* duplicate whose order differs from the order the patterns are added in
PolicyFiles ==
    { BadFile,
      write(Data(TRUE, << >>, FALSE, << >>)),
      write(Data(TRUE, << >>, TRUE, << "**/a.md", "**/docs/**", "**/a.md" >>)) }

\* the relative paths isIgnored is asked about
PolicyPaths == Dirs \cup Files

\* what the last call was: its pattern or path and the value it returned
PolicyOp(op, arg, raw, result) ==
    [op |-> op, arg |-> arg, raw |-> raw, result |-> result]

PolicyInit ==
    /\ phase = "boot"
    /\ extraDirs = << >>
    /\ file \in PolicyFiles
    /\ cfgPending = FALSE
    /\ watchers = [x \in {} |-> 0]
    /\ handles = [i \in {} |-> createWatcher("")]
    /\ globCache = EmptyCache
    /\ conn = [c \in Clients |-> "absent"]
    /\ pendingLink = 0
    /\ lastOp = PolicyOp("init", "", NoRaw, FALSE)
    /\ sent = << >>
    /\ AuxInit
    /\ out = NoOut

\* a step of the policy touches the file, the cache and the record only
PolicyStep(newFile, newCache, op) ==
    /\ file' = newFile
    /\ globCache' = newCache
    /\ UNCHANGED aux
    /\ lastOp' = op
    /\ UNCHANGED << phase, extraDirs, cfgPending, watchers, handles, conn,
                    pendingLink, sent, out >>

\* config.addIgnorePattern(pattern) (config.js:127-135)
CallAddIgnorePattern(pattern) ==
    \E result \in {addIgnorePattern(file, pattern)} :
        PolicyStep(result.file,
                   IF result.cleared THEN EmptyCache ELSE globCache,
                   PolicyOp("addIgnorePattern", pattern, NoRaw, result.added))

\* config.removeIgnorePattern(pattern) (config.js:137-146)
CallRemoveIgnorePattern(pattern) ==
    \E result \in {removeIgnorePattern(file, pattern)} :
        PolicyStep(result.file,
                   IF result.cleared THEN EmptyCache ELSE globCache,
                   PolicyOp("removeIgnorePattern", pattern, NoRaw,
                            result.removed))

\* config.ensureDefaults() (config.js:113-119): no clearGlobCache call
CallEnsureDefaults ==
    PolicyStep(ensureDefaults(file), globCache,
               PolicyOp("ensureDefaults", "", NoRaw,
                        ensureDefaults(file) # file))

\* config.isIgnored(relPath) (config.js:166-172)
CallIsIgnored(segs) ==
    \E rel \in {[sep |-> "/", segs |-> segs]} :
        PolicyStep(file, CacheAfter(file, globCache, rel),
                   PolicyOp("isIgnored", "", segs,
                            isIgnored(file, globCache, rel)))

\* config.clearGlobCache() (config.js:151-153)
CallClearGlobCache ==
    PolicyStep(file, EmptyCache, PolicyOp("clearGlobCache", "", NoRaw, TRUE))

\* another process or an editor rewrites the file
PolicyEdit(newFile) ==
    /\ newFile # file
    /\ PolicyStep(newFile, globCache, PolicyOp("edit", "", NoRaw, TRUE))

PolicyNext ==
    \/ \E p \in PolicyPatterns : CallAddIgnorePattern(p)
    \/ \E p \in PolicyPatterns : CallRemoveIgnorePattern(p)
    \/ CallEnsureDefaults
    \/ \E s \in PolicyPaths : CallIsIgnored(s)
    \/ CallClearGlobCache
    \/ \E f \in PolicyFiles : PolicyEdit(f)

PolicySpec == PolicyInit /\ [][PolicyNext]_vars


(***************************************************************************)
(* The policy and the watcher's filter asked about a root itself: the      *)
(* relative paths "" and "." (config.js:166-172, part_000:17-23).          *)
(***************************************************************************)
\* user patterns: a literal "." (`peekmd ignore .`) and a directory glob
RootPatterns == { ".", "**/docs/**" }

\* the relative paths "", "." and that of a directory
RootPaths == { << >>, << "." >>, << "docs" >> }

\* the watcher's `ignored` function called with a path (part_000:18-22)
CallIgnored(dir, segs, sep) ==
    \E p \in {Abs(dir, segs, sep)} :
        PolicyStep(file,
                   IF segs \in { << >>, << "." >> } THEN globCache
                   ELSE CacheAfter(file, globCache,
                                   SplitJoin(Relative(dir, p), sep)),
                   PolicyOp("ignored", dir, segs,
                            ignored(file, globCache, sep, dir, p)))

RootNext ==
    \/ \E p \in RootPatterns : CallAddIgnorePattern(p)
    \/ \E p \in RootPatterns : CallRemoveIgnorePattern(p)
    \/ CallEnsureDefaults
    \/ \E s \in RootPaths : CallIsIgnored(s)
    \/ \E r \in Roots, s \in RootPaths, sep \in Seps : CallIgnored(r, s, sep)
    \/ CallClearGlobCache

RootSpec == PolicyInit /\ [][RootNext]_vars

(***************************************************************************)
(* The folder list as a sequence of linkFolder and unlinkFolder calls      *)
(* (config.js:25-49).                                                      *)
(***************************************************************************)
\* duplicate-free configurations, with and without an ignore list
FolderFiles ==
    { BadFile,
      write(Data(TRUE, << >>, FALSE, << >>)),
      write(Data(TRUE, << "/r1" >>, TRUE, << >>)),
      write(Data(TRUE, << "/r2", "/r1" >>, TRUE, << "**/docs/**" >>)) }

FolderInit ==
    /\ phase = "boot"
    /\ extraDirs = << >>
    /\ file \in FolderFiles
    /\ cfgPending = FALSE
    /\ watchers = [x \in {} |-> 0]
    /\ handles = [i \in {} |-> createWatcher("")]
    /\ globCache = EmptyCache
    /\ conn = [c \in Clients |-> "absent"]
    /\ pendingLink = 0
    /\ lastOp = PolicyOp("init", "", BadFile, FALSE)
    /\ sent = << >>
    /\ AuxInit
    /\ out = NoOut

\* config.linkFolder(dir); raw: the file before the call
CallLinkFolder(dir) ==
    \E result \in {linkFolder(file, dir)} :
        PolicyStep(result.file,
                   IF result.cleared THEN EmptyCache ELSE globCache,
                   PolicyOp("linkFolder", dir, file, result.added))

\* config.unlinkFolder(dir); raw: the file before the call
CallUnlinkFolder(dir) ==
    \E result \in {unlinkFolder(file, dir)} :
        PolicyStep(result.file,
                   IF result.cleared THEN EmptyCache ELSE globCache,
                   PolicyOp("unlinkFolder", dir, file, result.removed))

FolderNext ==
    \/ \E d \in FolderArgs : CallLinkFolder(d)
    \/ \E d \in FolderArgs : CallUnlinkFolder(d)
    \/ \E s \in {<< "docs" >>, << "a.md" >>} : CallIsIgnored(s)

FolderSpec == FolderInit /\ [][FolderNext]_vars

(***************************************************************************)
(* The file-read route (peekmd.js:765-774, 791-807): GET /api/file with a  *)
(* folder and a relative path chosen by the client.  Absolute paths are    *)
(* the sequences of their segments below the filesystem root.              *)
(***************************************************************************)
\* the folder strings a client sends, and their segments
FolderParams == {"", "/r1", "/r2", "/out"}
SplitPath(dir) ==
    CASE dir = "/r1" -> << "r1" >>
      [] dir = "/r2" -> << "r2" >>
      [] dir = "/out" -> << "out" >>
      [] OTHER -> << >>

\* the path strings a client sends: "", "a.md", "docs/../a.md", ".",
\* "../r2/a.md", "../secret.md", "docs/../../secret.md", "..a.md",
\* "missing.md", and the absolute "/r1/a.md" and "/secret.md"
EmptyRel == [abs |-> FALSE, segs |-> << >>]
RelParams ==
    { EmptyRel,
      [abs |-> FALSE, segs |-> << "a.md" >>],
      [abs |-> FALSE, segs |-> << "docs", "..", "a.md" >>],
      [abs |-> FALSE, segs |-> << "." >>],
      [abs |-> FALSE, segs |-> << "..", "r2", "a.md" >>],
      [abs |-> FALSE, segs |-> << "..", "secret.md" >>],
      [abs |-> FALSE, segs |-> << "docs", "..", "..", "secret.md" >>],
      [abs |-> FALSE, segs |-> << "..a.md" >>],
      [abs |-> FALSE, segs |-> << "missing.md" >>],
      [abs |-> TRUE, segs |-> << "r1", "a.md" >>],
      [abs |-> TRUE, segs |-> << "secret.md" >>] }

\* the files fs.readFile can read
RouteDisk == { << "r1", "a.md" >>, << "r1", "..a.md" >>, << "r2", "a.md" >>,
               << "out", "a.md" >>, << "secret.md" >> }

\* path normalisation: "." is dropped, ".." removes the segment before it
\* (and stays at the root)
RECURSIVE NormalizeSegs(_, _)
NormalizeSegs(done, todo) ==
    IF todo = << >> THEN done
    ELSE LET seg == Head(todo)
         IN  NormalizeSegs(
                 IF seg = "." THEN done
                 ELSE IF seg = ".."
                 THEN (IF done = << >> THEN done
                       ELSE SubSeq(done, 1, Len(done) - 1))
                 ELSE Append(done, seg),
                 Tail(todo))

\* path.resolve(folder, rel) (peekmd.js:798): an absolute rel replaces the
\* folder
PathResolve(folder, rel) ==
    NormalizeSegs(<< >>, IF rel.abs THEN rel.segs
                         ELSE SplitPath(folder) \o rel.segs)

\* the length of the longest common prefix
RECURSIVE CommonPrefix(_, _)
CommonPrefix(a, b) ==
    IF a = << >> \/ b = << >> \/ Head(a) # Head(b) THEN 0
    ELSE 1 + CommonPrefix(Tail(a), Tail(b))

\* path.relative(parent, child) (peekmd.js:772): one ".." for every segment
\* of parent that child does not share, then the rest of child
PathRelative(parent, child) ==
    LET k == CommonPrefix(parent, child)
    IN  [abs |-> FALSE,
         segs |-> [i \in 1..(Len(parent) - k) |-> ".."]
                     \o SubSeq(child, k + 1, Len(child))]

\* rel.startsWith(".."): the string's first segment is ".." or a name that
\* begins with two dots
StartsWithDotDot(rel) ==
    rel.segs # << >> /\ Head(rel.segs) \in {"..", "..a.md"}

\* a test that looks at path.isAbsolute only
isWithinOnlyAbsolute(parent, child) ==
    LET rel == PathRelative(parent, child)
    IN  ~rel.abs

\* peekmd.js:771-774
isWithin(parent, child) ==
    LET rel == PathRelative(parent, child)
    IN  ~StartsWithDotDot(rel) /\ ~rel.abs

NoContent == [found |-> FALSE, of |-> << >>]

\* peekmd.js:791-807: the status and the content of the response; 500 stands
\* for the handler raising in getAllFolders (no response body is written)
getFile(f, extra, folder, rel) ==
    IF folder = "" \/ rel = EmptyRel
    THEN [status |-> 400, content |-> NoContent]
    ELSE IF getAllFoldersThrows(f, extra)
    THEN [status |-> 500, content |-> NoContent]
    ELSE IF ~Includes(getAllFolders(f, extra), folder)
    THEN [status |-> 403, content |-> NoContent]
    ELSE LET abs == PathResolve(folder, rel)
         IN  IF ~isWithin(SplitPath(folder), abs)
             THEN [status |-> 403, content |-> NoContent]
             ELSE IF abs \in RouteDisk
             THEN [status |-> 200, content |-> [found |-> TRUE, of |-> abs]]
             ELSE [status |-> 404, content |-> NoContent]

RouteFiles == FolderFiles \cup {write(Data(FALSE, << >>, TRUE, << >>))}

RouteInit ==
    /\ phase = "boot"
    /\ extraDirs \in {<< >>, << "/out" >>}
    /\ file \in RouteFiles
    /\ cfgPending = FALSE
    /\ watchers = [x \in {} |-> 0]
    /\ handles = [i \in {} |-> createWatcher("")]
    /\ globCache = EmptyCache
    /\ conn = [c \in Clients |-> "absent"]
    /\ pendingLink = 0
    /\ lastOp = PolicyOp("init", "", BadFile, FALSE)
    /\ sent = << >>
    /\ out = NoOut
    /\ AuxInit

\* a client requests GET /api/file?folder=..&path=..
GetFile(folder, rel) ==
    /\ \E r \in {getFile(file, extraDirs, folder, rel)} :
          lastOp' = [op |-> "getFile", folder |-> folder, rel |-> rel,
                     status |-> r.status, content |-> r.content]
    /\ UNCHANGED << phase, extraDirs, file, cfgPending, watchers, handles,
                    globCache, conn, pendingLink, sent, out >>
    /\ UNCHANGED aux

RouteNext ==
    \/ \E d \in Roots : CallLinkFolder(d)
    \/ \E d \in Roots : CallUnlinkFolder(d)
    \/ \E folder \in FolderParams, rel \in RelParams : GetFile(folder, rel)

RouteSpec == RouteInit /\ [][RouteNext]_vars

(***************************************************************************)
(* Two processes change the configuration file (config.js:9-19, 25-49,     *)
(* 127-146): the server handling an API request and a CLI command, or two  *)
(* CLI commands.  A mutator is read(), a change of the parsed object, and  *)
(* write(): two file operations, between which the other process runs.     *)
(* Each process has its own matcher cache, which the file does not see.    *)
(***************************************************************************)
EditOps ==
    { [kind |-> k, arg |-> d] : k \in {"link", "unlink"}, d \in Roots }
    \cup { [kind |-> k, arg |-> a] : k \in {"addIgnore", "removeIgnore"},
                                     a \in PatternArgs }

\* the mutator of config.js the operation names, applied to what read() saw
EditResult(seen, op) ==
    CASE op.kind = "link" -> linkFolder(seen, op.arg)
      [] op.kind = "unlink" -> unlinkFolder(seen, op.arg)
      [] op.kind = "addIgnore" -> addIgnorePattern(seen, op.arg)
      [] OTHER -> removeIgnorePattern(seen, op.arg)

EditStep(p, new, newFile) ==
    /\ daemon' = [daemon EXCEPT !.edit[p] = new]
    /\ file' = newFile
    /\ UNCHANGED << phase, extraDirs, cfgPending, watchers, handles,
                    globCache, conn, pendingLink, lastOp, sent, out,
                    loop, client, wire >>

\* the mutator's `const data = read()` (config.js:32, 42, 128, 138)
EditRead(p, op) ==
    /\ daemon.edit[p].pc = "idle"
    /\ EditStep(p, [pc |-> "write", op |-> op, data |-> file], file)

\* the rest of the mutator: the early return, or the change and write(data)
\* (config.js:33-35, 43-46, 129-133, 139-143); what is written is what was
\* read, changed
EditWrite(p) ==
    /\ daemon.edit[p].pc = "write"
    /\ \E r \in {EditResult(daemon.edit[p].data, daemon.edit[p].op)} :
          EditStep(p, [daemon.edit[p] EXCEPT !.pc = "done"],
                   IF r.cleared THEN r.file ELSE file)

EditInit == FolderInit

EditNext ==
    \/ \E p \in CliProcs, op \in EditOps : EditRead(p, op)
    \/ \E p \in CliProcs : EditWrite(p)

EditSpec == EditInit /\ [][EditNext]_vars

(***************************************************************************)
(* Search (peekmd.js:660-674, 731-751; app.js:314-345).  Strings that are  *)
(* searched are sequences of characters; a file's content is the sequence  *)
(* of its lines (content.split("\n")).                                     *)
(***************************************************************************)
\* the characters of a path segment
SegChars(seg) ==
    CASE seg = "a.md" -> << "a", ".", "m", "d" >>
      [] seg = "b.MD" -> << "b", ".", "M", "D" >>
      [] seg = "c.md" -> << "c", ".", "m", "d" >>
      [] seg = "d.txt" -> << "d", ".", "t", "x", "t" >>
      [] seg = "e.pyc" -> << "e", ".", "p", "y", "c" >>
      [] seg = "docs" -> << "d", "o", "c", "s" >>
      [] OTHER -> << "n", "o", "d", "e", "_", "m", "o", "d", "u", "l", "e", "s" >>

\* the characters of a relative path: its segments joined by its separator
RECURSIVE JoinChars(_, _)
JoinChars(segs, sep) ==
    IF segs = << >> THEN << >>
    ELSE IF Len(segs) = 1 THEN SegChars(Head(segs))
    ELSE SegChars(Head(segs)) \o << sep >> \o JoinChars(Tail(segs), sep)

\* String.prototype.toLowerCase
LowerChar(c) ==
    CASE c = "T" -> "t"
      [] c = "O" -> "o"
      [] c = "M" -> "m"
      [] c = "D" -> "d"
      [] OTHER -> c
LowerStr(str) == [i \in 1..Len(str) |-> LowerChar(str[i])]

\* String.prototype.trim
RECURSIVE TrimStart(_)
TrimStart(str) ==
    IF str # << >> /\ Head(str) = " " THEN TrimStart(Tail(str)) ELSE str
RECURSIVE TrimEnd(_)
TrimEnd(str) ==
    IF str # << >> /\ str[Len(str)] = " "
    THEN TrimEnd(SubSeq(str, 1, Len(str) - 1)) ELSE str
Trim(str) == TrimEnd(TrimStart(str))

\* String.prototype.includes
IncludesStr(str, q) ==
    \E i \in 0..Len(str) :
        i + Len(q) <= Len(str) /\ SubSeq(str, i + 1, i + Len(q)) = q

\* Array.prototype.sort on the relative paths of the tree: code-unit order
PathRank(segs) ==
    CASE segs = << "a.md" >> -> 1
      [] segs = << "docs", "b.MD" >> -> 2
      [] segs = << "docs", "d.txt" >> -> 3
      [] segs = << "e.pyc" >> -> 4
      [] OTHER -> 5

RECURSIVE SortPaths(_)
SortPaths(set) ==
    IF set = {} THEN << >>
    ELSE LET first == CHOOSE x \in set :
                         \A y \in set : PathRank(x) <= PathRank(y)
         IN  << first >> \o SortPaths(set \ {first})

\* peekmd.js:660-674: the .md files below dir that are not ignored and lie
\* in no ignored directory, as relative paths with the platform's separator
scanMarkdown(f, cache, sep) ==
    LET rel(x) == [sep |-> sep, segs |-> x]
        skipped == { d \in Dirs : isIgnored(f, cache, rel(d)) }
        listed == { x \in Files :
                      /\ ~\E d \in skipped :
                            Len(d) < Len(x) /\ SubSeq(x, 1, Len(d)) = d
                      /\ ~isIgnored(f, cache, rel(x))
                      /\ ToLowerCase(ExtOf(x[Len(x)])) = ".md" }
    IN  [i \in 1..Cardinality(listed) |-> rel(SortPaths(listed)[i])]

\* peekmd.js:741-743: lines.map(trim).filter(includes), from line i on
RECURSIVE LineMatches(_, _, _)
LineMatches(lines, q, i) ==
    IF i > Len(lines) THEN << >>
    ELSE LET m == [line |-> i, text |-> Trim(lines[i])]
         IN  (IF IncludesStr(LowerStr(m.text), q) THEN << m >> ELSE << >>)
             \o LineMatches(lines, q, i + 1)

\* peekmd.js:736-748: the entries of one folder, for the files from k on
RECURSIVE SearchFolder(_, _, _, _, _)
SearchFolder(folder, files, content, q, k) ==
    IF k > Len(files) THEN << >>
    ELSE LET matches == LineMatches(content[files[k].segs], q, 1)
             pathStr == JoinChars(files[k].segs, files[k].sep)
         IN  (IF matches # << >> \/ IncludesStr(LowerStr(pathStr), q)
              THEN << [folder |-> folder, file |-> files[k],
                       matches |-> matches] >>
              ELSE << >>)
             \o SearchFolder(folder, files, content, q, k + 1)

\* peekmd.js:731-751
RECURSIVE searchFiles(_, _, _, _, _, _)
searchFiles(f, cache, sep, folders, content, query) ==
    IF folders = << >> THEN << >>
    ELSE SearchFolder(Head(folders), scanMarkdown(f, cache, sep), content,
                      LowerStr(query), 1)
         \o searchFiles(f, cache, sep, Tail(folders), content, query)

\* Array.prototype.slice(0, n)
Slice0(seq, n) == SubSeq(seq, 1, IF n < Len(seq) THEN n ELSE Len(seq))

\* app.js:338: the line matches shown below a result's file row
SearchRowLimit == 5

\* a search view that shows every line match
runSearchRowsAll(results) ==
    [i \in 1..Len(results) |->
        [folder |-> results[i].folder, file |-> results[i].file,
         rows |-> results[i].matches]]

\* app.js:332-344: per result entry one file row and its match rows
runSearchRows(results) ==
    [i \in 1..Len(results) |->
        [folder |-> results[i].folder, file |-> results[i].file,
         rows |-> Slice0(results[i].matches, SearchRowLimit)]]

\* lines of the files: capitals, leading blanks, and a line without a match
LineTo == << "T", "o" >>
LineBlankTo == << " ", "t", "o" >>
LineX == << "x" >>

\* what a .md file can hold
Contents ==
    { << >>,
      << LineX, LineTo >>,
      << LineBlankTo >>,
      << LineTo, LineX, LineTo, LineTo, LineTo, LineTo, LineTo >> }

\* the .md files of the tree
MdFiles == { x \in Files : ToLowerCase(ExtOf(x[Len(x)])) = ".md" }

\* the queries: lower and upper case, one that starts with a blank, one
\* that only paths contain, one that nothing contains
Queries ==
    { << "t", "o" >>, << "T", "O" >>, << " ", "t" >>, << "m", "d" >>,
      << "z", "z" >> }

\* the record of a search: the query, what the files held, what searchFiles
\* returned and what the search view shows
SearchOp(op, query, content, sep, results, shown) ==
    [op |-> op, query |-> query, content |-> content, sep |-> sep,
     results |-> results, shown |-> shown]

SearchInit ==
    /\ phase = "boot"
    /\ extraDirs = << >>
    /\ file \in { write(Data(TRUE, << "/r1" >>, FALSE, << >>)),
                  write(Data(TRUE, << "/r2", "/r1" >>, TRUE,
                             << "**/docs/**" >>)) }
    /\ cfgPending = FALSE
    /\ watchers = [x \in {} |-> 0]
    /\ handles = [i \in {} |-> createWatcher("")]
    /\ globCache = EmptyCache
    /\ conn = [c \in Clients |-> "absent"]
    /\ pendingLink = 0
    /\ \E q \in Queries, content \in [MdFiles -> Contents], sep \in Seps :
          lastOp = SearchOp("init", q, content, sep, << >>, << >>)
    /\ sent = << >>
    /\ AuxInit
    /\ out = NoOut

\* GET /api/search and `peekmd search` (peekmd.js:853-858, 363-375, 904-907)
\* with the query, the platform and the file contents drawn at the start
CallSearchFiles ==
    /\ lastOp.op = "init"
    /\ lastOp' = [lastOp EXCEPT
                    !.op = "searchFiles",
                    !.results = searchFiles(file, globCache, lastOp.sep,
                                            getAllFolders(file, extraDirs),
                                            lastOp.content, lastOp.query)]
    /\ UNCHANGED aux
    /\ globCache' = CacheAfterAll(file, globCache,
                        scanMarkdownVisits(file, globCache, lastOp.sep))
    /\ UNCHANGED << phase, extraDirs, file, cfgPending, watchers, handles,
                    conn, pendingLink, sent, out >>

\* app.js:314-345: the browser renders the results it was answered
RunSearch ==
    /\ lastOp.op = "searchFiles"
    /\ UNCHANGED aux
    /\ lastOp' = [lastOp EXCEPT !.op = "runSearch",
                                !.shown = runSearchRows(lastOp.results)]
    /\ UNCHANGED << phase, extraDirs, file, cfgPending, watchers, handles,
                    globCache, conn, pendingLink, sent, out >>

SearchNext ==
    \/ CallSearchFiles
    \/ RunSearch

SearchSpec == SearchInit /\ [][SearchNext]_vars

(***************************************************************************)
(* The server's event loop, statement by statement (peekmd.js:681-729,     *)
(* 809-829, 866-897).  One callback is on the stack at a time; it leaves   *)
(* the stack when it returns or when it reaches an await.                  *)
(***************************************************************************)
\* the statements inside a registry operation: syncWatchers after line 710
\* and restartAllWatchers after line 699, up to their return
RegistryPcs == { "sync:stop", "sync:start", "sync:clear",
                 "restart:close", "restart:clear", "restart:start" }

\* a callback that also awaits between the two loops of syncWatchers
SuspendsAtSyncToo(pc) == pc \in { "link:await", "sync:start" }

\* the statements that hold an await: peekmd.js:816 and no other statement
\* of 681-729, 809-829, 866-897
SuspendsAt(pc) == pc = "link:await"

\* syncWatchers with its two loops exchanged
SyncPcAfterStartFirst(pc) ==
    CASE pc = "sync:read" -> "sync:start"
      [] pc = "sync:start" -> "sync:stop"
      [] pc = "sync:stop" -> "sync:clear"
      [] OTHER -> "sync:broadcast"

\* the order of syncWatchers' statements (peekmd.js:710-728) and of the
\* callback's broadcast (896)
SyncPcAfter(pc) ==
    CASE pc = "sync:read" -> "sync:stop"
      [] pc = "sync:stop" -> "sync:start"
      [] pc = "sync:start" -> "sync:clear"
      [] OTHER -> "sync:broadcast"

\* the elements of a set in iteration order
RECURSIVE SeqOf(_)
SeqOf(set) ==
    IF set = {} THEN << >>
    ELSE LET x == CHOOSE y \in set : TRUE
         IN  << x >> \o SeqOf(set \ {x})

At(fr, pc) == [fr EXCEPT !.pc = pc, !.yielded = FALSE]

\* what a statement leaves: registry, file, cache, a pending config change,
\* the broadcasts, and the frame (NoFrame when the callback returned)
Left(reg, f, cache, pend, msgs, fr) ==
    [reg |-> reg, file |-> f, cache |-> cache, pend |-> pend,
     msgs |-> msgs, fr |-> fr]

\* w.close() of restartAllWatchers' first loop (peekmd.js:699-701): the
\* handle goes, the map entry stays until watchers.clear()
CloseOnly(reg, folder) ==
    [reg EXCEPT !.h = Without(@, reg.w[folder]),
                !.stopped = @ \cup {folder}]

\* the loop of a frame is over: the todo list for the statement after it
LoopList(fr, pc) ==
    CASE pc = "sync:stop" -> SeqOf(fr.cur)
      [] pc = "sync:start" -> fr.all
      [] OTHER -> << >>

\* one statement of the running callback
Exec(fr) ==
    LET stay == Left(Here, file, globCache, cfgPending, << >>, fr)
        nextSync == SyncPcAfter(fr.pc)
        leaveLoop == [stay EXCEPT !.fr = [At(fr, nextSync) EXCEPT
                                            !.todo = LoopList(fr, nextSync)]]
        rest == [fr EXCEPT !.todo = Tail(fr.todo)]
    IN  CASE fr.pc = "sync:read" ->
               \* 710-714
               LET got == [fr EXCEPT
                             !.cur = DOMAIN watchers,
                             !.all = PushMissing(getFolders(file), extraDirs),
                             !.at = [w |-> watchers, h |-> handles],
                             !.cfg = file]
               IN  [stay EXCEPT !.fr = [At(got, nextSync) EXCEPT
                                          !.todo = LoopList(got, nextSync)]]
          [] fr.pc = "sync:stop" ->
               \* 716-720
               IF fr.todo = << >> THEN leaveLoop
               ELSE [stay EXCEPT
                       !.reg = IF Head(fr.todo) \notin Range(fr.all)
                               THEN stopWatcher(Here, Head(fr.todo))
                               ELSE Here,
                       !.fr = rest]
          [] fr.pc = "sync:start" ->
               \* 722-726
               IF fr.todo = << >> THEN leaveLoop
               ELSE [stay EXCEPT
                       !.reg = IF Head(fr.todo) \notin fr.cur
                               THEN startWatcher(Here, Head(fr.todo))
                               ELSE Here,
                       !.fr = rest]
          [] fr.pc = "sync:clear" ->
               \* 728
               [stay EXCEPT !.cache = EmptyCache, !.fr = At(fr, nextSync)]
          [] fr.pc = "sync:broadcast" ->
               \* 896
               [stay EXCEPT !.msgs = << FoldersChanged >>, !.fr = NoFrame]
          [] fr.pc = "link:linkFolder" ->
               \* 813-814
               LET result == linkFolder(file, fr.arg)
               IN  IF result.error # "" THEN [stay EXCEPT !.fr = NoFrame]
                   ELSE [stay EXCEPT
                           !.file = result.file,
                           !.cache = IF result.cleared THEN EmptyCache
                                     ELSE globCache,
                           !.pend = cfgPending \/ result.added,
                           !.fr = [At(fr, IF result.added THEN "link:start"
                                          ELSE "link:broadcast")
                                   EXCEPT !.arg = result.path]]
          [] fr.pc = "link:start" ->
               \* 815
               [stay EXCEPT !.reg = startWatcher(Here, fr.arg),
                            !.fr = At(fr, "link:await")]
          [] fr.pc = "link:await" ->
               \* 816, after the promise of scanMarkdown settled
               [stay EXCEPT !.fr = At(fr, "link:broadcast")]
          [] fr.pc = "link:broadcast" ->
               \* 817-818
               [stay EXCEPT !.msgs = << FoldersChanged >>, !.fr = NoFrame]
          [] fr.pc = "unlink:unlinkFolder" ->
               \* 825
               LET result == unlinkFolder(file, fr.arg)
               IN  [stay EXCEPT
                      !.file = result.file,
                      !.cache = IF result.cleared THEN EmptyCache
                                ELSE globCache,
                      !.pend = cfgPending \/ result.removed,
                      !.fr = [At(fr, IF result.removed THEN "unlink:stop"
                                     ELSE "unlink:broadcast")
                              EXCEPT !.arg = result.path]]
          [] fr.pc = "unlink:stop" ->
               \* 826
               [stay EXCEPT !.reg = stopWatcher(Here, fr.arg),
                            !.fr = At(fr, "unlink:broadcast")]
          [] fr.pc = "unlink:broadcast" ->
               \* 827-828
               [stay EXCEPT !.msgs = << FoldersChanged >>, !.fr = NoFrame]
          [] fr.pc = "ignore:add" ->
               \* 870-871
               LET result == addIgnorePattern(file, fr.arg)
               IN  IF ~result.added THEN [stay EXCEPT !.fr = NoFrame]
                   ELSE [stay EXCEPT
                           !.file = result.file,
                           !.cache = EmptyCache,
                           !.pend = TRUE,
                           !.fr = [At(fr, "restart:close") EXCEPT
                                     !.todo = SeqOf(DOMAIN watchers),
                                     !.at = [w |-> watchers, h |-> handles]]]
          [] fr.pc = "ignore:remove" ->
               \* 882-883
               LET result == removeIgnorePattern(file, fr.arg)
               IN  IF ~result.removed THEN [stay EXCEPT !.fr = NoFrame]
                   ELSE [stay EXCEPT
                           !.file = result.file,
                           !.cache = EmptyCache,
                           !.pend = TRUE,
                           !.fr = [At(fr, "restart:close") EXCEPT
                                     !.todo = SeqOf(DOMAIN watchers),
                                     !.at = [w |-> watchers, h |-> handles]]]
          [] fr.pc = "restart:close" ->
               \* 699-701
               IF fr.todo = << >> THEN [stay EXCEPT
                                          !.fr = At(fr, "restart:clear")]
               ELSE [stay EXCEPT !.reg = CloseOnly(Here, Head(fr.todo)),
                                 !.fr = rest]
          [] fr.pc = "restart:clear" ->
               \* 702-704
               [stay EXCEPT
                  !.reg = [Here EXCEPT !.w = [x \in {} |-> 0]],
                  !.cache = EmptyCache,
                  !.fr = [At(fr, "restart:start") EXCEPT
                            !.todo = getFolders(file), !.cfg = file]]
          [] fr.pc = "restart:start" ->
               \* 704-706
               IF fr.todo = << >> THEN [stay EXCEPT
                                          !.fr = At(fr, "restart:broadcast")]
               ELSE [stay EXCEPT !.reg = startWatcher(Here, Head(fr.todo)),
                                 !.fr = rest]
          [] fr.pc = "restart:broadcast" ->
               \* 873-875, 885-887
               [stay EXCEPT !.msgs = << FoldersChanged >>, !.fr = NoFrame]
          [] OTHER ->
               \* "event:handle", part_000:40-45
               [stay EXCEPT
                  !.msgs = EventsOf(LiveFor(fr.arg), "change", << "a.md" >>,
                                    "/"),
                  !.cache = OnEventCache(file, globCache, "/", fr.arg,
                                         Abs(fr.arg, << "a.md" >>, "/")),
                  !.fr = NoFrame]

\* the entry statement of each callback
EntryPc(fn) ==
    CASE fn = "configChange" -> "sync:read"
      [] fn = "link" -> "link:linkFolder"
      [] fn = "unlink" -> "unlink:unlinkFolder"
      [] fn = "ignore" -> "ignore:add"
      [] fn = "unignore" -> "ignore:remove"
      [] OTHER -> "event:handle"

\* what a loop step leaves alone
LoopFrame ==
    UNCHANGED << phase, extraDirs, conn, lastOp, client, daemon, wire >>

\* the loop takes a callback off its queue: only when the stack is empty.
\* The config watcher's callback waits for a change of the file, a watcher's
\* event handler for a live watcher of the root.
LoopDispatch(fn, arg) ==
    /\ phase = "running"
    /\ loop.running = NoFrame
    /\ fn = "configChange" => cfgPending
    /\ fn = "link" => Cardinality(loop.suspended) < MaxPendingLink
    /\ fn = "fsEvent" => LiveFor(arg) # {}
    /\ loop' = [loop EXCEPT !.running = [At(NoFrame, EntryPc(fn)) EXCEPT
                                           !.fn = fn, !.arg = arg]]
    /\ cfgPending' = IF fn = "configChange" THEN FALSE ELSE cfgPending
    /\ sent' = << >>
    /\ out' = NoOut
    /\ LoopFrame
    /\ UNCHANGED << file, watchers, handles, globCache, pendingLink >>

\* the running callback executes its next statement, or leaves the stack at
\* an await
LoopStep ==
    /\ loop.running # NoFrame
    /\ LET fr == loop.running
       IN  IF SuspendsAt(fr.pc) /\ ~fr.yielded
           THEN /\ loop' = [running |-> NoFrame,
                            suspended |-> loop.suspended \cup {fr}]
                /\ sent' = << >>
                /\ out' = NoOut
                /\ UNCHANGED << file, cfgPending, watchers, handles,
                                globCache >>
           ELSE \E r \in {Exec(fr)} :
                /\ Cardinality(DOMAIN r.reg.h) <= MaxHandles
                /\ watchers' = r.reg.w
                /\ handles' = r.reg.h
                /\ file' = r.file
                /\ globCache' = r.cache
                /\ cfgPending' = r.pend
                /\ sent' = r.msgs
                /\ out' = BroadcastAll(conn, r.msgs)
                /\ loop' = [loop EXCEPT !.running = r.fr]
    /\ LoopFrame
    /\ UNCHANGED pendingLink

\* the awaited promise settled: the continuation runs when the stack is empty
LoopResume(fr) ==
    /\ loop.running = NoFrame
    /\ fr \in loop.suspended
    /\ loop' = [running |-> [fr EXCEPT !.yielded = TRUE],
                suspended |-> loop.suspended \ {fr}]
    /\ sent' = << >>
    /\ out' = NoOut
    /\ LoopFrame
    /\ UNCHANGED << file, cfgPending, watchers, handles, globCache,
                    pendingLink >>

Callbacks == { "configChange", "link", "unlink", "ignore", "unignore",
               "fsEvent" }

CallbackArgs(fn) ==
    CASE fn = "configChange" -> {""}
      [] fn \in {"ignore", "unignore"} -> PatternArgs
      [] OTHER -> Roots

LoopInit ==
    /\ Init
    /\ file \in { write(Data(TRUE, << "/r1" >>, FALSE, << >>)),
                  write(Data(TRUE, << "/r2", "/r1" >>, TRUE, << >>)) }
    /\ extraDirs \in { << >>, << "/r1" >> }

\* the server's callbacks statement by statement, while a CLI in another
\* process links and unlinks folders at any moment
LoopNext ==
    \/ Boot
    \/ \E fn \in Callbacks : \E arg \in CallbackArgs(fn) :
          LoopDispatch(fn, arg)
    \/ LoopStep
    \/ \E fr \in loop.suspended : LoopResume(fr)
    \/ \E d \in Roots : CliLink(d)
    \/ \E d \in Roots : CliUnlink(d)

LoopSpec == LoopInit /\ [][LoopNext]_vars

(***************************************************************************)
(* From a watcher's emission to the browser (part_000:39-46,               *)
(* peekmd.js:676-688, app.js:780).  chokidar calls the listener inside      *)
(* emit; the listener calls broadcast; c.send hands the frame to the       *)
(* connection, which delivers in the order it was handed the frames.       *)
(***************************************************************************)
MaxEmits == 3

\* a send that puts the frame ahead of those still in flight
SendAhead(queue, frames) == frames \o queue

\* peekmd.js:678 c.send(msg): the frame follows those already handed to the
\* connection
Send(queue, frames) == queue \o frames

WireFiles == { << "a.md" >>, << "node_modules", "a.md" >> }

WireFrame ==
    /\ lastOp' = Op("wire", "", FALSE, FALSE, Here, NoRaw)
    /\ UNCHANGED << phase, extraDirs, file, cfgPending, watchers, handles,
                    pendingLink, loop, client, daemon >>

\* a watcher emits an event; its listener broadcasts it (part_000:40-45)
WireEmit(root, event, segs) ==
    /\ phase = "running"
    /\ Len(wire.emitted) < MaxEmits
    /\ root \in DOMAIN watchers
    /\ handles[watchers[root]].scanned
    /\ LET dir == root
           msgs == OnEvent(file, globCache, "/", dir, event,
                           Abs(dir, segs, "/"))
           frames == BroadcastAll(conn, msgs)
       IN  /\ sent' = msgs
           /\ out' = frames
           /\ wire' = [wire EXCEPT
                         !.emitted = @ \o msgs,
                         !.inbox = [c \in Clients |->
                                      Send(wire.inbox[c], frames[c])]]
           /\ globCache' = OnEventCache(file, globCache, "/", dir,
                                        Abs(dir, segs, "/"))
    /\ UNCHANGED conn
    /\ WireFrame

\* the connection delivers its oldest frame: the page's message listener
\* runs (app.js:780)
WireDeliver(c) ==
    /\ conn[c] \in {"OPEN", "CLOSING"}
    /\ wire.inbox[c] # << >>
    /\ wire' = [wire EXCEPT !.inbox[c] = Tail(@),
                            !.got[c] = Append(@, Head(wire.inbox[c]))]
    /\ sent' = << >>
    /\ out' = NoOut
    /\ UNCHANGED << conn, globCache >>
    /\ WireFrame

\* a hub that keeps what it broadcast and replays it to a socket that
\* connects
AcceptReplay(w, c) ==
    [w EXCEPT !.since[c] = Len(w.emitted),
              !.inbox[c] = [i \in 1..Len(w.emitted) |->
                               Stringify(w.emitted[i])],
              !.got[c] = << >>]

\* peekmd.js:760, 676-679: a connection is a new socket of wss.clients; it
\* carries nothing yet, and broadcast keeps nothing for it (a socket that
\* went away took what it carried with it)
Accept(w, c) ==
    [w EXCEPT !.since[c] = Len(w.emitted),
              !.inbox[c] = << >>,
              !.got[c] = << >>]

\* a browser connects, starts closing, or is gone with what was in flight
WireConn(c, from, to) ==
    /\ phase = "running"
    /\ conn[c] \in from
    /\ conn' = [conn EXCEPT ![c] = to]
    /\ wire' = IF to = "CLOSING" THEN wire ELSE Accept(wire, c)
    /\ sent' = << >>
    /\ out' = NoOut
    /\ UNCHANGED globCache
    /\ WireFrame

WireInit ==
    /\ Init
    /\ file = write(Data(TRUE, << "/r2", "/r1" >>, TRUE, << >>))
    /\ extraDirs = << >>

WireNext ==
    \/ Boot
    \/ \E id \in HandleIds : Scan(id, "/")
    \/ \E r \in Roots, e \in EVENTS, s \in WireFiles : WireEmit(r, e, s)
    \/ \E c \in Clients : WireDeliver(c)
    \/ \E c \in Clients : WireConn(c, {"absent"}, "OPEN")
    \/ \E c \in Clients : WireConn(c, {"OPEN"}, "CLOSING")
    \/ \E c \in Clients : WireConn(c, {"OPEN", "CLOSING"}, "absent")

WireSpec == WireInit /\ [][WireNext]_vars

(***************************************************************************)
(* The browser page (app.js:508-517, 745-821): the live-reload socket with *)
(* its reconnect timer, and the preview.                                   *)
(***************************************************************************)
MaxCloses == 6

RetryStart == 500
RetryCap == 5000
RetryFactor == 2

\* a backoff without the cap
NextDelayUncapped(d) == d * RetryFactor

\* app.js:773 Math.min(retryDelay * 2, 5000)
NextDelay(d) == IF d * RetryFactor < RetryCap THEN d * RetryFactor ELSE RetryCap

\* .replace(/\\/g, "/") (app.js:797-798)
ReplaceBackslashes(p) == [sep |-> "/", segs |-> p.segs]

\* the paths of the sidebar (as the server's platform writes them) and the
\* markdown files below a root
PagePaths == { [sep |-> "/", segs |-> << "a.md" >>],
               [sep |-> "\\", segs |-> << "docs", "b.md" >>] }
DiskFiles == { << r, p.segs >> : r \in Roots, p \in PagePaths }

ClientStep(new, op) ==
    /\ client' = [new EXCEPT !.last = op,
                             !.msg = IF op = "message" THEN @ ELSE NoMsg]
    /\ UNCHANGED << phase, extraDirs, file, cfgPending, watchers, handles,
                    globCache, conn, pendingLink, lastOp, sent, out,
                    loop, daemon, wire >>

\* connect() (app.js:760-761)
connect(cl) == [cl EXCEPT !.ws = "connecting", !.connects = @ + 1,
                          !.live = @ + 1]

\* DOMContentLoaded: initWS (745-748, 820), the home page (834-836)
InitWS ==
    /\ client.ws = "none"
    /\ ClientStep(connect([client EXCEPT !.retryDelay = RetryStart,
                                        !.body = "home",
                                        !.disk = DiskFiles]), "initWS")

\* the socket's open listener (763-768)
WsOpen ==
    /\ client.ws = "connecting"
    /\ ClientStep([client EXCEPT !.ws = "open",
                                 !.prev = client.retryDelay,
                                 !.retryDelay = RetryStart,
                                 !.connected = TRUE,
                                 !.rendered = FALSE], "open")

\* an error listener that schedules a reconnect as the close listener does
onErrorReconnects(cl) ==
    [cl EXCEPT !.connected = FALSE,
               !.timers = Append(@, cl.retryDelay)]

\* the error listener's body (775-777): setConnected(false), nothing else
onError(cl) == [cl EXCEPT !.connected = FALSE]

\* the socket's error listener (775-777); the close event follows
WsError ==
    /\ client.ws \in {"connecting", "open"}
    /\ client.connected
    /\ ClientStep([onError(client) EXCEPT !.rendered = FALSE], "error")

\* the socket's close listener (770-774); a socket closes once
WsClose ==
    /\ client.ws \in {"connecting", "open"}
    /\ client.closes < MaxCloses
    /\ ClientStep([client EXCEPT
                     !.ws = "closed",
                     !.connected = FALSE,
                     !.timers = Append(@, client.retryDelay),
                     !.prev = client.retryDelay,
                     !.retryDelay = NextDelay(client.retryDelay),
                     !.closes = @ + 1,
                     !.live = @ - 1,
                     !.rendered = FALSE], "close")

\* the timer of line 772 fires: connect()
TimerFires ==
    /\ client.timers # << >>
    /\ ClientStep(connect([client EXCEPT !.timers = Tail(@),
                                         !.rendered = FALSE]), "connect")

\* api.file (223-228): the content, or null when the file is not there
ApiFile(cl, folder, path) == << folder, ReplaceBackslashes(path).segs >> \in cl.disk

\* selectFile (512-518)
SelectFile(folder, path) ==
    /\ client.ws # "none"
    /\ LET content == ApiFile(client, folder, path)
       IN  ClientStep([client EXCEPT
                         !.activeFolderPath = folder,
                         !.activeFilePath = path,
                         !.body = IF content THEN "rendered" ELSE @,
                         !.shownFolder = IF content THEN folder ELSE @,
                         !.shown = IF content THEN path ELSE @,
                         !.rendered = content], "select")

\* a listener that leaves out the folder test of line 794
OnMessageAnyFolder(cl, msg) ==
    LET msgPath == ReplaceBackslashes(msg.path)
        curPath == ReplaceBackslashes(cl.activeFilePath)
    IN  IF msg.type = "folders-changed" THEN cl
        ELSE IF msg.type = "unlink" /\ msgPath = curPath
        THEN [cl EXCEPT !.activeFilePath = NoPath, !.body = "deleted"]
        ELSE IF msgPath = curPath /\ msg.type \in {"change", "add"}
        THEN IF ApiFile(cl, cl.activeFolderPath, cl.activeFilePath)
             THEN [cl EXCEPT !.body = "rendered", !.rendered = TRUE]
             ELSE cl
        ELSE cl

\* the message listener (780-817) from the test of line 794 on
OnMessage(cl, msg) ==
    LET msgPath == ReplaceBackslashes(msg.path)
        curPath == ReplaceBackslashes(cl.activeFilePath)
    IN  IF msg.type = "folders-changed" THEN cl
        ELSE IF msg.folder # cl.activeFolderPath THEN cl
        ELSE IF msg.type = "unlink" /\ msgPath = curPath
        THEN [cl EXCEPT !.activeFilePath = NoPath, !.body = "deleted"]
        ELSE IF msgPath = curPath /\ msg.type \in {"change", "add"}
        THEN IF ApiFile(cl, cl.activeFolderPath, cl.activeFilePath)
             THEN [cl EXCEPT !.body = "rendered", !.rendered = TRUE]
             ELSE cl
        ELSE cl

\* a markdown file below a root is created, written or deleted; the server
\* broadcasts the event (part_000:44) and the page's listener runs
PageEvent(type, folder, segs) ==
    /\ client.ws = "open"
    /\ type = "add" => << folder, segs >> \notin client.disk
    /\ type \in {"change", "unlink"} => << folder, segs >> \in client.disk
    /\ LET msg == [type |-> type, folder |-> folder,
                   path |-> [sep |-> "/", segs |-> segs]]
           disk == IF type = "add" THEN client.disk \cup {<< folder, segs >>}
                   ELSE IF type = "unlink"
                   THEN client.disk \ {<< folder, segs >>}
                   ELSE client.disk
       IN  ClientStep(OnMessage([client EXCEPT !.disk = disk, !.msg = msg,
                                                !.rendered = FALSE], msg),
                      "message")

\* a folders-changed broadcast arrives (783-786)
PageFoldersChanged ==
    /\ client.ws = "open"
    /\ client.last # "folders"
    /\ ClientStep(OnMessage([client EXCEPT !.rendered = FALSE,
                                           !.msg = NoMsg],
                            [type |-> "folders-changed", folder |-> "",
                             path |-> NoPath]), "folders")

ClientInit == Init /\ file = BadFile /\ extraDirs = << >>

ClientNext ==
    \/ InitWS
    \/ WsOpen
    \/ WsError
    \/ WsClose
    \/ TimerFires
    \/ \E r \in Roots, p \in PagePaths : SelectFile(r, p)
    \/ \E t \in EVENTS, r \in Roots, p \in PagePaths : PageEvent(t, r, p.segs)
    \/ PageFoldersChanged

ClientSpec == ClientInit /\ [][ClientNext]_vars

(***************************************************************************)
(* The page's file requests (app.js:223-228, 512-518, 807-816).  selectFile *)
(* and the message listener are async functions: each runs up to its       *)
(* `await api.file(...)`, the request is in flight while other handlers    *)
(* run, and the rest of the function runs when its response arrives.       *)
(* Responses of different requests arrive in any order.                    *)
(***************************************************************************)
MaxPending == 2

\* selectFile up to its await (512-515): the selection is recorded, the
\* request leaves
SelectFileSent(cl, folder, path) ==
    [cl EXCEPT !.activeFolderPath = folder,
               !.activeFilePath = path,
               !.pending = @ \cup {[folder |-> folder, path |-> path]}]

\* the message listener up to its await (780-813): as OnMessage, but the
\* request for the active file leaves instead of being answered at once
OnMessageSent(cl, msg) ==
    LET msgPath == ReplaceBackslashes(msg.path)
        curPath == ReplaceBackslashes(cl.activeFilePath)
    IN  IF msg.type = "folders-changed" THEN cl
        ELSE IF msg.folder # cl.activeFolderPath THEN cl
        ELSE IF msg.type = "unlink" /\ msgPath = curPath
        THEN [cl EXCEPT !.activeFilePath = NoPath, !.body = "deleted"]
        ELSE IF msgPath = curPath /\ msg.type \in {"change", "add"}
        THEN [cl EXCEPT !.pending = @ \cup {[folder |-> cl.activeFolderPath,
                                             path |-> cl.activeFilePath]}]
        ELSE cl

\* the rest of selectFile (515-516) and of the listener (813-815) once the
\* response is there: `if (content !== null) await renderMarkdown(content)`;
\* the content is that of the file the request named
FileResponse(cl, req) ==
    LET content == ApiFile(cl, req.folder, req.path)
    IN  [cl EXCEPT !.pending = @ \ {req},
                   !.body = IF content THEN "rendered" ELSE @,
                   !.shownFolder = IF content THEN req.folder ELSE @,
                   !.shown = IF content THEN req.path ELSE @,
                   !.rendered = content]

\* the user clicks a file of the sidebar
FetchSelect(folder, path) ==
    /\ client.ws # "none"
    /\ Cardinality(client.pending) < MaxPending
    /\ ClientStep(SelectFileSent([client EXCEPT !.rendered = FALSE],
                                 folder, path), "select")

\* a markdown file is created, written or deleted and the broadcast arrives
FetchEvent(type, folder, segs) ==
    /\ client.ws = "open"
    /\ Cardinality(client.pending) < MaxPending
    /\ type = "add" => << folder, segs >> \notin client.disk
    /\ type \in {"change", "unlink"} => << folder, segs >> \in client.disk
    /\ LET msg == [type |-> type, folder |-> folder,
                   path |-> [sep |-> "/", segs |-> segs]]
           disk == IF type = "add" THEN client.disk \cup {<< folder, segs >>}
                   ELSE IF type = "unlink"
                   THEN client.disk \ {<< folder, segs >>}
                   ELSE client.disk
       IN  ClientStep(OnMessageSent([client EXCEPT !.disk = disk,
                                                   !.msg = msg,
                                                   !.rendered = FALSE], msg),
                      "message")

\* the response of a request in flight arrives
FetchDone(req) ==
    /\ req \in client.pending
    /\ ClientStep(FileResponse(client, req), "response")

FetchNext ==
    \/ InitWS
    \/ WsOpen
    \/ \E r \in Roots, p \in PagePaths : FetchSelect(r, p)
    \/ \E t \in EVENTS, r \in Roots, p \in PagePaths : FetchEvent(t, r, p.segs)
    \/ \E req \in client.pending : FetchDone(req)

FetchSpec == ClientInit /\ [][FetchNext]_vars

(***************************************************************************)
(* The daemon and its PID file (bin/peekmd.js:12-39, 191-297).  Each CLI   *)
(* command is a process of its own; its file and process operations are    *)
(* separate system calls, so two commands interleave between them.         *)
(***************************************************************************)
MaxSpawns == 2

\* pids a stale PID file may hold: of a process that is gone, and of a live
\* process of another user
StalePids == {7}
ForeignPids == {9}

\* the file's content: 0 for no file, -1 for text parseInt cannot read
PidFileChoices == {0, -1} \cup StalePids \cup ForeignPids

\* bin/peekmd.js:17-23: null or NaN (here 0) unless the file holds a number
pidRead(d) == IF d.pidFile > 0 THEN d.pidFile ELSE 0

\* a liveness test that never finds the process
pidAliveNever(d, id) == FALSE

\* bin/peekmd.js:32-39: process.kill(id, 0) returns; it raises ESRCH when
\* there is no such process and EPERM when it is another user's
pidAlive(d, id) == id \in d.mine

DaemonStep(new) ==
    /\ daemon' = new
    /\ UNCHANGED << phase, extraDirs, file, cfgPending, watchers, handles,
                    globCache, conn, pendingLink, lastOp, sent, out,
                    loop, client, wire >>

\* the pc after the test of `id && pid.alive(id)` in each command
AfterCheck(cmd, id, running) ==
    CASE cmd = "start" -> IF running THEN "done" ELSE "clear"
      [] cmd = "open" -> IF running THEN "done"
                         ELSE IF id # 0 THEN "clearStale" ELSE "clear"
      [] cmd = "stop" -> IF running THEN "kill" ELSE "clearEnd"
      [] OTHER -> IF ~running /\ id # 0 THEN "clearEnd" ELSE "done"

\* the pc after a pid.clear()
AfterClear(pc) ==
    CASE pc = "clearStale" -> "clear"
      [] pc = "clear" -> "spawn"
      [] OTHER -> "done"

Commands == {"start", "open", "stop", "status"}

\* a user runs `peekmd <cmd>`
CliRun(p, cmd) ==
    /\ daemon.cli[p].cmd = "none"
    /\ DaemonStep([daemon EXCEPT !.cli[p] =
                      [IdleCli EXCEPT !.cmd = cmd, !.pc = "check"]])

\* pid.read() and pid.alive (191-193, 220-221, 243-244, 269-270)
CliCheck(p) ==
    /\ daemon.cli[p].pc = "check"
    /\ LET c == daemon.cli[p]
           id == pidRead(daemon)
           running == id # 0 /\ pidAlive(daemon, id)
       IN  DaemonStep([daemon EXCEPT !.cli[p] =
               [c EXCEPT !.id = id,
                         !.sawMine = id \in daemon.mine,
                         !.sawLive = id \in daemon.mine \cup daemon.foreign,
                         !.pc = AfterCheck(c.cmd, id, running)]])

\* pid.clear() (196, 228, 237, 245, 271, 278)
CliClear(p) ==
    /\ daemon.cli[p].pc \in {"clearStale", "clear", "clearEnd"}
    /\ DaemonStep([daemon EXCEPT
                     !.pidFile = 0,
                     !.cli[p].touched = TRUE,
                     !.cli[p].pc = AfterClear(daemon.cli[p].pc)])

\* child_process.spawn (198-207, 280-289): a new process with a new pid
CliSpawn(p) ==
    /\ daemon.cli[p].pc = "spawn"
    /\ daemon.spawned < MaxSpawns
    /\ LET child == daemon.spawned + 1
       IN  DaemonStep([daemon EXCEPT !.spawned = child,
                                     !.mine = @ \cup {child},
                                     !.cli[p].child = child,
                                     !.cli[p].pc = "write"])

\* pid.write(child.pid) (208, 290)
CliWrite(p) ==
    /\ daemon.cli[p].pc = "write"
    /\ DaemonStep([daemon EXCEPT !.pidFile = daemon.cli[p].child,
                                 !.cli[p].recorded = TRUE,
                                 !.cli[p].touched = TRUE,
                                 !.cli[p].pc = "done"])

\* process.kill(id, "SIGTERM") (231-236): the daemon ends; when the process
\* is gone by now the command reports the failure and leaves the file
CliKill(p) ==
    /\ daemon.cli[p].pc = "kill"
    /\ LET id == daemon.cli[p].id
       IN  DaemonStep([daemon EXCEPT
                         !.mine = @ \ {id},
                         !.cli[p].pc = IF id \in daemon.mine THEN "clearEnd"
                                       ELSE "done"])

\* the command's process exits
CliExit(p) ==
    /\ daemon.cli[p].pc = "done"
    /\ DaemonStep([daemon EXCEPT !.cli[p] = IdleCli])

\* a daemon ends by itself
DaemonExit(id) ==
    /\ id \in daemon.mine
    /\ DaemonStep([daemon EXCEPT !.mine = @ \ {id}])

DaemonInit ==
    /\ phase = "boot"
    /\ extraDirs = << >>
    /\ file = BadFile
    /\ cfgPending = FALSE
    /\ watchers = [x \in {} |-> 0]
    /\ handles = [i \in {} |-> createWatcher("")]
    /\ globCache = EmptyCache
    /\ conn = [c \in Clients |-> "absent"]
    /\ pendingLink = 0
    /\ lastOp = Op("init", "", FALSE, FALSE, Here, NoRaw)
    /\ sent = << >>
    /\ out = NoOut
    /\ loop = LoopIdle
    /\ client = ClientStart
    /\ wire = WireStart
    /\ \E f \in PidFileChoices :
          daemon = [DaemonStart EXCEPT !.pidFile = f, !.foreign = ForeignPids]

DaemonNext ==
    \/ \E p \in CliProcs, cmd \in Commands : CliRun(p, cmd)
    \/ \E p \in CliProcs : CliCheck(p)
    \/ \E p \in CliProcs : CliClear(p)
    \/ \E p \in CliProcs : CliSpawn(p)
    \/ \E p \in CliProcs : CliWrite(p)
    \/ \E p \in CliProcs : CliKill(p)
    \/ \E p \in CliProcs : CliExit(p)
    \/ \E id \in 1..MaxSpawns : DaemonExit(id)

DaemonSpec == DaemonInit /\ [][DaemonNext]_vars

(***************************************************************************)
(* Properties.                                                             *)
(***************************************************************************)
\* the authoritative set: configured folders united with the extra
\* directories of the session
Authoritative == Range(getFolders(file)) \cup Range(extraDirs)

\* exactly one live handle, the registry's, for every authoritative root and
\* none for any other root
RegistryMatches ==
    /\ DOMAIN watchers = Authoritative
    /\ \A r \in DOMAIN watchers : LiveFor(r) = { watchers[r] }
    /\ \A r \in Roots \ DOMAIN watchers : LiveFor(r) = {}

\* C1: after createServer has started the watchers and after every run of
\* syncWatchers that returned, the registry holds exactly one handle for each
\* root of the authoritative set and no handle for any other root.
C1_RegistryAfterReconcile ==
    (phase = "running" /\ lastOp.op \in {"boot", "configChange"})
        => RegistryMatches

\* C1 witness: a run of syncWatchers that both closed a watcher and created one
C1_Witness ==
    /\ phase = "running"
    /\ lastOp.op = "configChange"
    /\ lastOp.started # {}
    /\ lastOp.stopped # {}
    /\ Range(extraDirs) # {}

\* C2: after POST /api/ignore or /api/unignore changed the pattern list,
\* every root of the authoritative set has exactly one live watcher handle
\* and no other root has one.
C2_RegistryAfterPatternChange ==
    (phase = "running" /\ lastOp.op \in {"ignore", "unignore"} /\ lastOp.changed)
        => RegistryMatches

\* C3: a POST /api/link or /api/unlink handled while the registry agrees
\* with the authoritative set leaves it in agreement (so, by induction, it
\* agrees after any sequence of links and unlinks).
C3_LinkUnlinkKeepRegistry ==
    [][ ( /\ RegistryMatches
          /\ \/ \E d \in FolderArgs : ApiLink(d)
             \/ \E d \in FolderArgs : ApiUnlink(d) )
        => RegistryMatches' ]_vars

\* C4: once the config-change callback has run for the last change of the
\* configuration file, the server is running and the registry's roots equal
\* the folders read from the file united with the extra directories.
C4_RegistryAfterConfigChange ==
    (lastOp.op = "configChange" /\ ~cfgPending)
        => (phase = "running" /\ RegistryMatches)

\* C5: startWatcher for a root that has a handle creates nothing and leaves
\* the registry as it is, no root ever has two live handles, and stopWatcher
\* for a root without a handle is a no-op.
C5_EnsureReleaseIdempotent ==
    phase = "running" =>
        /\ \A r \in Roots : Cardinality(LiveFor(r)) <= 1
        /\ \A r \in DOMAIN watchers : startWatcher(Here, r) = Here
        /\ \A r \in Roots \ DOMAIN watchers : stopWatcher(Here, r) = Here

\* C5 witness: a link whose root already had a watcher (a session extra
\* directory): startWatcher was called and created nothing
C5_Witness ==
    /\ lastOp.op = "link"
    /\ lastOp.changed
    /\ lastOp.started = {}
    /\ Range(getFolders(file)) \cap Range(extraDirs) # {}

\* C6: a run of syncWatchers that finds the registry equal to the
\* authoritative set starts no watcher, stops no watcher and leaves every
\* handle as it is; in particular a second run right after a first one.
C6_ReconcileIdempotent ==
    (phase = "running" /\ HasFolders(file) /\ RegistryMatches)
        => syncWatchers(Here, file, extraDirs) = Here

\* C6 witness: syncWatchers has just run and its run changed nothing,
\* with watchers in the registry
C6_Witness ==
    /\ phase = "running"
    /\ lastOp.op = "configChange"
    /\ lastOp.started = {}
    /\ lastOp.stopped = {}
    /\ Cardinality(DOMAIN watchers) = 2
    /\ \A r \in DOMAIN watchers : handles[watchers[r]].scanned

\* C7: a change of a file below a root that has no handle in the registry
\* (never watched, or released and not ensured again) broadcasts nothing.
C7_NoEventAfterRelease ==
    (lastOp.op = "fsChange" /\ lastOp.arg \notin DOMAIN watchers)
        => sent = << >>

\* C7 witness: a file changes below a session extra directory (watched since
\* startup) after it was released by an unlink
C7_Witness ==
    /\ lastOp.op = "fsChange"
    /\ lastOp.arg \in Range(extraDirs) \ DOMAIN watchers
    /\ lastOp.raw = << "a.md" >>
    /\ sent = << >>

\* C8: broadcast hands the event to every connection that is open and to no
\* other, and raises nothing, whatever the state of the other connections.
C8_BroadcastFanOut ==
    sent # << >> =>
        /\ ~lastOp.threw
        /\ \A c \in Clients :
              out[c] = IF conn[c] = "OPEN"
                       THEN [i \in 1..Len(sent) |-> Stringify(sent[i])]
                       ELSE << >>

\* C8 witness: an event broadcast while one connection is open and another
\* registered connection is not
C8_Witness ==
    /\ sent # << >>
    /\ \E c \in Clients : conn[c] = "OPEN" /\ out[c] # << >>
    /\ \E c \in Clients : conn[c] = "CLOSING"

\* a relative path is ignored under the pattern list the file holds,
\* every pattern compiled afresh
IgnoredNow(segs) ==
    \E p \in Range(getIgnorePatterns(file)) : GlobMatch(Parse(p), segs)

\* C9: every event a directory watcher forwards has a type of EVENTS, the
\* watcher's root as folder and a forward-slash relative path that ends in
\* .md (case-insensitively) and is not ignored under the current patterns.
C9_ForwardedEvents ==
    lastOp.op = "fsChange" =>
        \A i \in 1..Len(sent) :
            /\ sent[i].type \in EVENTS
            /\ sent[i].folder = lastOp.arg
            /\ sent[i].path.sep = "/"
            /\ sent[i].path.segs = lastOp.raw
            /\ ToLowerCase(ExtOf(lastOp.raw[Len(lastOp.raw)])) = ".md"
            /\ ~IgnoredNow(sent[i].path.segs)

\* C9 witness: an upper-case .MD file forwarded while a user pattern is set
C9_Witness ==
    /\ lastOp.op = "fsChange"
    /\ Len(sent) = 1
    /\ sent[1].path.segs = << "docs", "b.MD" >>
    /\ sent[1].type = "add"

\* C10: once the pattern list has changed and the reconciliation has run,
\* a change of a file below a watched, scanned root is reported exactly when
\* the file is a .md file that is not ignored under the current patterns.
C10_EventsFollowPatterns ==
    ( /\ lastOp.op = "fsChange"
      /\ ~cfgPending
      /\ lastOp.arg \in DOMAIN watchers
      /\ \A id \in LiveFor(lastOp.arg) : handles[id].scanned )
    => ( sent # << >> <=>
            /\ ToLowerCase(ExtOf(lastOp.raw[Len(lastOp.raw)])) = ".md"
            /\ ~IgnoredNow(lastOp.raw) )


\* the effective pattern list as a set: the built-in defaults united with
\* the stored user list
EffectiveSet(f) ==
    Range(DEFAULT_IGNORE) \cup
    (IF read(f).hasIgnore THEN Range(read(f).ignore) ELSE {})

\* C11: isIgnored(relPath) returns true exactly when some pattern of the
\* effective set (defaults united with the stored user list) matches relPath,
\* whatever the order of the list and however often a pattern occurs in it.
C11_IgnoredIffSomePatternMatches ==
    lastOp.op = "isIgnored" =>
        ( lastOp.result <=>
            \E p \in EffectiveSet(file) : GlobMatch(Parse(p), lastOp.raw) )

\* C11 witness: a path matched only by a user pattern that is stored twice
\* and is not the last of the list is reported as ignored
C11_Witness ==
    /\ lastOp.op = "isIgnored"
    /\ lastOp.raw = << "a.md" >>
    /\ lastOp.result
    /\ read(file).hasIgnore
    /\ Len(read(file).ignore) > Cardinality(Range(read(file).ignore))
    /\ read(file).ignore[Len(read(file).ignore)] # "**/a.md"

\* C12: whatever was added, removed, defaulted or edited, every built-in
\* default is in the effective pattern list, and without an ignore key the
\* effective list is the default list.
C12_DefaultsStayEffective ==
    /\ Range(DEFAULT_IGNORE) \subseteq Range(getIgnorePatterns(file))
    /\ ~read(file).hasIgnore => getIgnorePatterns(file) = DEFAULT_IGNORE

\* C12 witness: removeIgnorePattern was called with a built-in default and
\* removed it from the stored list
C12_Witness ==
    /\ lastOp.op = "removeIgnorePattern"
    /\ lastOp.arg \in Range(DEFAULT_IGNORE)
    /\ lastOp.result
    /\ lastOp.arg \notin Range(read(file).ignore)

\* C13: the built-in default list is never written to the configuration
\* file: the stored ignore list holds only patterns a user added (through
\* the API, the CLI or an editor), also after the server has started.
C13_DefaultsNeverPersisted ==
    read(file).hasIgnore => Range(read(file).ignore) \subseteq PatternArgs

\* C14: whatever was added, removed, edited or cleared before, isIgnored
\* answers from the cache what an evaluation that compiles every pattern of
\* the current list afresh answers, for every path.
C14_CacheTransparent ==
    \A s \in PolicyPaths :
        isIgnored(file, globCache, [sep |-> "/", segs |-> s]) = IgnoredNow(s)

\* C14 witness: isIgnored has answered while the cache held the matcher of a
\* pattern that an edit of the file had taken out of the list
C14_Witness ==
    /\ lastOp.op = "isIgnored"
    /\ \E p \in DOMAIN globCache : p \notin Range(getIgnorePatterns(file))
    /\ \E p \in DOMAIN globCache : p \in Range(getIgnorePatterns(file))

\* the patterns whose matcher an isIgnored call looks up: those up to the
\* first that matches (config.js:168-170)
Consulted(f, cache, rel) == DOMAIN CacheAfter(f, EmptyCache, rel)

\* C15: a call that changed the stored pattern list, or stored the defaults
\* for the first time, leaves the compiled-matcher cache empty, and isIgnored
\* looks up matchers of patterns of the current effective list only.
C15_ChangeClearsCache ==
    /\ ( /\ lastOp.op \in {"addIgnorePattern", "removeIgnorePattern",
                           "ensureDefaults"}
         /\ lastOp.result )
       => globCache = EmptyCache
    /\ \A s \in PolicyPaths :
          Consulted(file, globCache, [sep |-> "/", segs |-> s])
              \subseteq Range(getIgnorePatterns(file))

\* C16: POST /api/link with a path that does not exist or is not a
\* directory answers with the error and changes nothing: the file is not
\* written, no watcher is created or closed, no handler is left suspended
\* and nothing is broadcast.
C16_LinkErrorChangesNothing ==
    [][ \A d \in FolderArgs :
          ( StatKind(Resolve(d)) # "dir" /\ ApiLink(d) )
          => /\ lastOp'.arg \in {"path does not exist", "not a directory"}
             /\ ~lastOp'.threw
             /\ file' = file
             /\ watchers' = watchers
             /\ handles' = handles
             /\ pendingLink' = pendingLink
             /\ sent' = << >> ]_vars

\* C16 witness: a link of a plain file was refused while watchers exist
C16_Witness ==
    /\ lastOp.op = "link"
    /\ lastOp.arg = "not a directory"
    /\ DOMAIN watchers # {}

\* C17: every handler that changed the folder set or the pattern list, and
\* every run of the config-change callback, broadcasts one payload-free
\* folders-changed message (POST /api/link does so when it resumes from its
\* await), and at that moment the registry has already been updated: the
\* unlinked root has no handle, the callback's reconciliation is done, the
\* watchers restarted for a pattern change are the new ones.
C17_FoldersChangedAfterUpdate ==
    /\ ( \/ lastOp.op \in {"unlink", "ignore", "unignore"} /\ lastOp.changed
         \/ lastOp.op \in {"configChange", "linkDone"} )
       => sent = << FoldersChanged >>
    /\ (lastOp.op = "link" /\ lastOp.changed) => pendingLink > 0
    /\ (lastOp.op = "unlink" /\ lastOp.changed)
       => lastOp.stopped \cap DOMAIN watchers = {}
    /\ (lastOp.op = "configChange" /\ sent # << >>)
       => DOMAIN watchers = Authoritative
    /\ (lastOp.op \in {"ignore", "unignore"} /\ sent # << >>)
       => \A r \in DOMAIN watchers : ~handles[watchers[r]].scanned

\* C18: the creation of a .md file that is not ignored, below a root whose
\* registered watcher has finished its scan, makes the server broadcast
\* exactly one add event for that root and path, and every open connection
\* receives exactly that one message.
C18_ExactlyOneAdd ==
    ( /\ lastOp.op = "fsChange"
      /\ lastOp.event = "add"
      /\ lastOp.arg \in DOMAIN watchers
      /\ handles[watchers[lastOp.arg]].scanned
      /\ ToLowerCase(ExtOf(lastOp.raw[Len(lastOp.raw)])) = ".md"
      /\ ~IgnoredNow(lastOp.raw) )
    => /\ sent = << [type |-> "add", folder |-> lastOp.arg,
                     path |-> [sep |-> "/", segs |-> lastOp.raw]] >>
       /\ \A c \in Clients :
             conn[c] = "OPEN" => out[c] = << Stringify(sent[1]) >>

\* C20: an error reported by the watch mechanism of a directory watcher or
\* of the configuration-file watcher raises nothing, leaves the server
\* running and starts or stops no watcher.
C20_WatchErrorsSwallowed ==
    lastOp.op \in {"watchError", "configWatchError"}
    => /\ phase = "running"
       /\ ~lastOp.threw
       /\ lastOp.started = {}
       /\ lastOp.stopped = {}

\* C21: every entry of a search result holds at most 5 line-match
\* records.
C21_AtMostFiveMatchesReturned ==
    lastOp.op = "searchFiles"
    => \A i \in 1..Len(lastOp.results) :
          Len(lastOp.results[i].matches) <= 5

\* the lines of a file that contain the query once both are trimmed and
\* lower-cased as searchFiles does
MatchingLines(lines, query) ==
    { n \in 1..Len(lines) :
        IncludesStr(LowerStr(Trim(lines[n])), LowerStr(query)) }

\* C21 as amended: searchFiles returns a record for every matching line, in
\* line order; the search view shows, for every entry, the first 5 of its
\* records and no others.
C21_FirstFiveMatchesShown ==
    /\ lastOp.op \in {"searchFiles", "runSearch"}
       => \A i \in 1..Len(lastOp.results) :
             LET e == lastOp.results[i]
             IN  /\ { e.matches[k].line : k \in 1..Len(e.matches) }
                      = MatchingLines(lastOp.content[e.file.segs], lastOp.query)
                 /\ \A k \in 1..(Len(e.matches) - 1) :
                       e.matches[k].line < e.matches[k + 1].line
    /\ lastOp.op = "runSearch"
       => /\ Len(lastOp.shown) = Len(lastOp.results)
          /\ \A i \in 1..Len(lastOp.results) :
                LET e == lastOp.results[i]
                    rows == lastOp.shown[i].rows
                IN  /\ Len(rows) <= 5
                    /\ Len(rows) = IF Len(e.matches) < 5 THEN Len(e.matches)
                                   ELSE 5
                    /\ \A k \in 1..Len(rows) : rows[k] = e.matches[k]

\* C21 witness: the search view shows 5 rows for a file in which 6 lines
\* match
C21_Witness ==
    /\ lastOp.op = "runSearch"
    /\ \E i \in 1..Len(lastOp.results) :
          /\ Len(lastOp.results[i].matches) = 6
          /\ Len(lastOp.shown[i].rows) = 5

\* C22: searchFiles returns an entry for a .md file that is not ignored,
\* below a given root, exactly when its relative path or one of its lines
\* contains the query, compared case-insensitively; every line-match record
\* carries the 1-based number of a line that contains the query.
C22_SearchFindsExactlyMatches ==
    lastOp.op = "searchFiles"
    => /\ \A r \in Range(getAllFolders(file, extraDirs)), x \in MdFiles :
             ~IgnoredNow(x)
             => ( (\E i \in 1..Len(lastOp.results) :
                      /\ lastOp.results[i].folder = r
                      /\ lastOp.results[i].file.segs = x)
                  <=> \/ IncludesStr(LowerStr(JoinChars(x, lastOp.sep)),
                                     LowerStr(lastOp.query))
                      \/ \E n \in 1..Len(lastOp.content[x]) :
                            IncludesStr(LowerStr(lastOp.content[x][n]),
                                        LowerStr(lastOp.query)) )
       /\ \A i \in 1..Len(lastOp.results) :
             LET e == lastOp.results[i]
                 lines == lastOp.content[e.file.segs]
             IN  \A k \in 1..Len(e.matches) :
                    /\ e.matches[k].line \in 1..Len(lines)
                    /\ IncludesStr(LowerStr(lines[e.matches[k].line]),
                                   LowerStr(lastOp.query))


\* C23: an operation that mutates the registry runs to completion as one
\* uninterrupted step: no callback is ever suspended inside syncWatchers or
\* restartAllWatchers, so no other reconciliation, handler or watcher event
\* runs in the middle of one; when the operation returns, the registry is
\* what the operation makes of the registry it started from
C23_RegistryOpsUninterrupted ==
    LET fr == loop.running
        began == Reg(fr.at.w, fr.at.h)
        now == [w |-> watchers, h |-> handles]
    IN  /\ \A s \in loop.suspended : s.pc \notin RegistryPcs
        /\ fr.pc = "sync:clear" =>
              LET made == syncWatchers(began, fr.cfg, extraDirs)
              IN  now = [w |-> made.w, h |-> made.h]
        /\ fr.pc = "restart:broadcast" =>
              LET made == restartAllWatchers(began, fr.cfg)
              IN  now = [w |-> made.w, h |-> made.h]

\* a reconciliation that stopped and started a watcher has returned while a
\* POST /api/link is suspended at its await
C23_Witness ==
    /\ loop.running.pc = "sync:clear"
    /\ loop.suspended # {}
    /\ DOMAIN watchers # DOMAIN loop.running.at.w

\* the messages of a sequence that name the root
ForRoot(seq, root) == SelectSeq(seq, LAMBDA m : m.folder = root)

\* what the connection handed to the page and what it still carries
Carried(c) ==
    [i \in 1..(Len(wire.got[c]) + Len(wire.inbox[c])) |->
        (wire.got[c] \o wire.inbox[c])[i].json]

\* C24: the events a directory watcher emits reach every client that stays
\* open in emission order: for each root, what an open client has received
\* or is about to receive is what the root's watcher emitted since the client
\* connected, in that order
C24_EmissionOrderKept ==
    \A c \in Clients : conn[c] = "OPEN" =>
        \A r \in Roots :
            ForRoot(Carried(c), r) =
               ForRoot(SubSeq(wire.emitted, wire.since[c] + 1,
                              Len(wire.emitted)), r)

\* an open client has received two different events of one root and a third
\* is on its way
C24_Witness ==
    \E c \in Clients :
        /\ conn[c] = "OPEN"
        /\ Len(wire.got[c]) = 2
        /\ wire.got[c][1] # wire.got[c][2]
        /\ wire.got[c][1].json.folder = wire.got[c][2].json.folder
        /\ wire.inbox[c] # << >>

\* C25: the reconnect delay starts at 500 ms, doubles after every close up
\* to the cap of 5000 ms, never leaves 500..5000, is 500 again after every
\* successful connection, and every close is followed by exactly one
\* reconnect attempt, made after the delay in force when the socket closed
C25_BackoffCappedAndReset ==
    client.ws # "none" =>
        /\ client.retryDelay >= 500 /\ client.retryDelay <= 5000
        /\ client.last = "initWS" => client.retryDelay = 500
        /\ client.last = "open" => client.retryDelay = 500
        /\ client.last = "close" =>
              /\ client.retryDelay =
                    IF client.prev >= 2500 THEN 5000 ELSE 2 * client.prev
              /\ client.timers = << client.prev >>
        /\ Len(client.timers) + (IF client.ws = "closed" THEN 0 ELSE 1) = 1
        /\ client.connects + Len(client.timers) = client.closes + 1

\* the delay reached the cap and another close left it there
C25_Witness ==
    /\ client.last = "close"
    /\ client.prev = 5000
    /\ client.retryDelay = 5000
    /\ client.closes = 6

\* C26: when the page receives an add, change or unlink event whose folder
\* and path are those of the file shown in the preview, the preview is
\* refreshed: re-rendered for add and change, replaced by the deleted notice
\* for unlink; also for an add of the file that arrives after its unlink
C26_PreviewRefreshed ==
    ( /\ client.last = "message"
      /\ client.msg.folder = client.shownFolder
      /\ client.msg.path = ReplaceBackslashes(client.shown)
      /\ client.shown # NoPath )
    => IF client.msg.type = "unlink" THEN client.body = "deleted"
       ELSE client.rendered /\ client.body = "rendered"

\* C27 as stated: start and open spawn a daemon only when the PID file names
\* no live process, and then record the spawned pid in the PID file; when it
\* names a live process they spawn nothing and leave the file unchanged
C27_SpawnOnlyWithoutLiveProcess ==
    \A p \in CliProcs :
        LET c == daemon.cli[p]
        IN  c.cmd \in {"start", "open"} =>
               /\ c.child # 0 => ~c.sawLive
               /\ (c.pc = "done" /\ c.child # 0) => c.recorded
               /\ (c.pc = "done" /\ c.sawLive) => c.child = 0 /\ ~c.touched

\* C27 amended: start and open spawn a daemon only when the PID file names
\* no process the command can signal (none, unreadable text, a pid that is
\* gone or belongs to another user), and then record the spawned pid in the
\* PID file; when it names a process they can signal they spawn nothing and
\* leave the file unchanged
C27_SpawnOnlyWithoutSignalableProcess ==
    \A p \in CliProcs :
        LET c == daemon.cli[p]
        IN  c.cmd \in {"start", "open"} =>
               /\ c.child # 0 => ~c.sawMine
               /\ c.pc = "done" => (c.child # 0 <=> ~c.sawMine)
               /\ (c.pc = "done" /\ c.child # 0) => c.recorded
               /\ (c.pc = "done" /\ c.sawMine) => c.child = 0 /\ ~c.touched

\* one command found a daemon and spawned nothing, after another had found
\* another user's process in the PID file and spawned that daemon
C27_Witness ==
    \E p, q \in CliProcs :
        /\ daemon.cli[p].cmd = "open"
        /\ daemon.cli[p].pc = "done"
        /\ daemon.cli[p].sawMine
        /\ daemon.cli[q].cmd = "start"
        /\ daemon.cli[q].pc = "done"
        /\ daemon.cli[q].id \in ForeignPids
        /\ daemon.cli[q].recorded

\* scanMarkdown lists the file
Listed(segs, sep) ==
    \E i \in 1..Len(scanMarkdown(file, globCache, sep)) :
        scanMarkdown(file, globCache, sep)[i].segs = segs

\* a search for a text every file holds returns an entry for the file
Eligible(root, segs, sep) ==
    LET found == searchFiles(file, globCache, sep, << root >>,
                             [x \in MdFiles |-> << LineTo >>], << "t", "o" >>)
    IN  \E i \in 1..Len(found) : found[i].file.segs = segs

\* the root's watcher, its scan done, forwards a change of the file
Forwards(root, segs, sep) ==
    /\ ~BelowPruned(handles[watchers[root]], segs)
    /\ OnEvent(file, globCache, sep, root, "change",
               Abs(root, segs, sep)) # << >>

\* C28: listing, search and watcher apply the ignore policy alike: a .md
\* file below a linked root is listed, and is eligible for search, exactly
\* if the root's watcher forwards change events for it
C28_PolicyAppliedAlike ==
    phase = "running" =>
        \A r \in DOMAIN watchers \cap Authoritative :
            handles[watchers[r]].scanned =>
                \A s \in MdFiles, sep \in Seps :
                    /\ Listed(s, sep) <=> Forwards(r, s, sep)
                    /\ Eligible(r, s, sep) <=> Forwards(r, s, sep)

\* C29: a relative path that is empty or "." is never ignored, whatever the
\* patterns: neither the policy nor a watcher's filter reports it ignored
C29_RootPathNeverIgnored ==
    ( /\ lastOp.op \in {"isIgnored", "ignored"}
      /\ lastOp.raw \in { << >>, << "." >> } )
    => ~lastOp.result

\* the roots a running syncWatchers has to release and to ensure
ToStop(fr) == fr.cur \ Range(fr.all)
ToStart(fr) == Range(fr.all) \ fr.cur

\* C30: one run of syncWatchers releases every root of current minus
\* authoritative before it ensures any root of authoritative minus current,
\* leaves the watcher of every root in both sets as it was, and clears the
\* matcher cache after both loops, so the cache is empty when it returns
C30_StopThenStartThenClear ==
    LET fr == loop.running
    IN  fr.pc \in {"sync:stop", "sync:start", "sync:clear", "sync:broadcast"}
        => /\ (\E r \in ToStart(fr) : r \in DOMAIN watchers)
                 => \A r \in ToStop(fr) : r \notin DOMAIN watchers
           /\ \A r \in fr.cur \cap Range(fr.all) :
                 /\ r \in DOMAIN watchers
                 /\ watchers[r] = fr.at.w[r]
                 /\ watchers[r] \in DOMAIN handles
           /\ fr.pc \in {"sync:clear", "sync:broadcast"} =>
                 /\ \A r \in ToStop(fr) : r \notin DOMAIN watchers
                 /\ \A r \in ToStart(fr) : r \in DOMAIN watchers
           /\ fr.pc = "sync:broadcast" => globCache = EmptyCache

\* a run that had a root to release and a root to ensure is through both
\* loops, the cache still holding compiled matchers
C30_Witness ==
    /\ loop.running.pc = "sync:clear"
    /\ ToStop(loop.running) # {}
    /\ ToStart(loop.running) # {}
    /\ globCache # EmptyCache

\* C31: no orphan handle: after any sequence of startWatcher, stopWatcher,
\* syncWatchers and restartAllWatchers, every watcher that was created and
\* not yet closed is the registry's value for its root, so every handle that
\* left the registry has been closed
C31_NoOrphanHandle ==
    \A id \in DOMAIN handles :
        /\ handles[id].dir \in DOMAIN watchers
        /\ watchers[handles[id].dir] = id

\* a restart closed the watchers of two roots and created two new ones
C31_Witness ==
    /\ lastOp.op \in {"ignore", "unignore"}
    /\ Cardinality(lastOp.stopped) = 2
    /\ Cardinality(lastOp.started) = 2
    /\ Cardinality(DOMAIN handles) = 2

\* no path occurs twice in a list
NoDuplicate(seq) == \A i, j \in 1..Len(seq) : seq[i] = seq[j] => i = j

\* C32: from a duplicate-free configuration, linkFolder and unlinkFolder
\* keep the folder list duplicate-free and in link order: linking a linked
\* directory returns added false and writes nothing, a new link is appended
\* at the end, an unlink removes only that entry and keeps the others' order
C32_FoldersDuplicateFreeInLinkOrder ==
    /\ NoDuplicate(getFolders(file))
    /\ lastOp.op = "linkFolder" =>
          LET prev == getFolders(lastOp.raw)
              abs == Resolve(lastOp.arg)
          IN  IF Includes(prev, abs)
              THEN ~lastOp.result /\ file = lastOp.raw
              ELSE IF lastOp.result
              THEN getFolders(file) = Append(prev, abs)
              ELSE file = lastOp.raw
    /\ lastOp.op = "unlinkFolder" =>
          LET prev == getFolders(lastOp.raw)
              abs == Resolve(lastOp.arg)
          IN  /\ getFolders(file) = SelectSeq(prev, LAMBDA x : x # abs)
              /\ lastOp.result <=> Includes(prev, abs)
              /\ ~lastOp.result => file = lastOp.raw

\* the first of two linked folders was unlinked and the other stayed
C32_Witness ==
    /\ lastOp.op = "unlinkFolder"
    /\ lastOp.result
    /\ Len(getFolders(lastOp.raw)) = 2
    /\ Resolve(lastOp.arg) = getFolders(lastOp.raw)[1]
    /\ getFolders(file) = << getFolders(lastOp.raw)[2] >>

\* C33: whatever the configuration file holds (absent, not JSON, an object
\* without a folders key), reading the folder list yields a list, and a
\* reconciliation run by the config-change callback completes without an
\* error that ends the process
C33_AnyFileReconciles ==
    /\ HasFolders(file)
    /\ lastOp.op = "configChange" => ~lastOp.threw /\ phase = "running"

\* C34: a client receives only messages broadcast while its connection is
\* open: what a connection has delivered or still carries is a run of the
\* messages emitted since it was opened, starting with the first of them, so
\* nothing broadcast before the client connected or while it was away reaches
\* it, and a client that is away carries nothing
C34_OnlyBroadcastsWhileOpen ==
    \A c \in Clients :
        LET n == Len(Carried(c))
        IN  /\ wire.since[c] + n <= Len(wire.emitted)
            /\ Carried(c) =
                  SubSeq(wire.emitted, wire.since[c] + 1, wire.since[c] + n)
            /\ conn[c] = "absent" => n = 0

\* a client that connected after a first message was broadcast has received
\* a later one, and not the first
C34_Witness ==
    \E c \in Clients :
        /\ conn[c] = "OPEN"
        /\ wire.since[c] >= 1
        /\ Len(wire.got[c]) >= 1
        /\ wire.got[c][1].json # wire.emitted[1]

\* the message is about another file than the active one: another folder, or
\* a path that names another file (paths are compared as app.js:797-798
\* compares them, separators alike)
AboutAnotherFile(cl, msg) ==
    \/ msg.folder # cl.activeFolderPath
    \/ ReplaceBackslashes(msg.path) # ReplaceBackslashes(cl.activeFilePath)

C36_PreviewIsActiveFile ==
    ( /\ client.pending = {}
      /\ client.activeFilePath # NoPath
      /\ ApiFile(client, client.activeFolderPath, client.activeFilePath) )
    => /\ client.shownFolder = client.activeFolderPath
       /\ client.shown = client.activeFilePath
       /\ client.body = "rendered"

\* C37: the client never has more than one live connection attempt: in
\* every reachable state the number of WebSocket connections that are
\* connecting or open plus the number of pending reconnect timers is at most
\* one
C37_OneConnectionAttempt ==
    /\ client.live >= 0
    /\ client.live + Len(client.timers) <= 1

\* after two closes, the timer of the last close has fired and its socket is
\* the only attempt
C37_Witness ==
    /\ client.closes >= 2
    /\ client.last = "connect"
    /\ client.live = 1
    /\ client.timers = << >>

\* C38: whenever a daemon spawned by start or open is alive, the PID file
\* holds that daemon's pid, for every interleaving of start, open, stop and
\* status, two concurrent starts included; judged when no command stands
\* between its spawn and its pid.write
C38_PidFileNamesLiveDaemon ==
    (\A p \in CliProcs : daemon.cli[p].pc # "write")
    => \A d \in daemon.mine : daemon.pidFile = d

\* the folder is in the authoritative set (the linked folders and the
\* directories of the command line)
InAuthoritativeSet(folder) ==
    HasFolders(file) /\ Includes(getAllFolders(file, extraDirs), folder)

\* the absolute path lies in the folder: the folder's segments begin it
LiesInside(folder, abs) ==
    /\ folder # ""
    /\ Len(abs) >= Len(SplitPath(folder))
    /\ SubSeq(abs, 1, Len(SplitPath(folder))) = SplitPath(folder)

\* C39: the file-read route returns content only for a path inside a
\* currently authoritative folder: for every folder and relative path a
\* client gives, when the folder is not in the authoritative set or the
\* resolved path is outside the folder, the request is refused and no file
\* content is returned; content that is returned is that of the resolved path
C39_ContentOnlyInsideAuthoritativeFolder ==
    lastOp.op = "getFile" =>
        LET abs == PathResolve(lastOp.folder, lastOp.rel)
        IN  /\ (~InAuthoritativeSet(lastOp.folder)
                  \/ ~LiesInside(lastOp.folder, abs))
               => lastOp.status # 200 /\ ~lastOp.content.found
            /\ lastOp.content.found
               => lastOp.status = 200 /\ lastOp.content.of = abs

\* a request that names a linked folder and climbs out of it to a file that
\* exists was refused with 403
C39_Witness ==
    /\ lastOp.op = "getFile"
    /\ InAuthoritativeSet(lastOp.folder)
    /\ PathResolve(lastOp.folder, lastOp.rel) \in RouteDisk
    /\ ~LiesInside(lastOp.folder, PathResolve(lastOp.folder, lastOp.rel))
    /\ lastOp.status = 403

\* the configuration file shows what the operation asked for
EffectIn(f, op) ==
    LET data == read(f)
    IN  CASE op.kind = "link" -> Includes(data.folders, op.arg)
          [] op.kind = "unlink" -> ~Includes(data.folders, op.arg)
          [] op.kind = "addIgnore" ->
                 data.hasIgnore /\ Includes(data.ignore, op.arg)
          [] OTHER -> ~(data.hasIgnore /\ Includes(data.ignore, op.arg))

\* C40: mutations of the configuration file made by two processes are not
\* lost: once both operations have completed the file contains the effect of
\* both (stated for two operations that do not undo each other: different
\* arguments)
C40_NoLostUpdate ==
    \A p, q \in CliProcs :
        ( /\ p # q
          /\ daemon.edit[p].pc = "done"
          /\ daemon.edit[q].pc = "done"
          /\ daemon.edit[p].op.arg # daemon.edit[q].op.arg )
        => EffectIn(file, daemon.edit[p].op)

=========================================================================
